---------------------------- MODULE Spec2Model ----------------------------
(***************************************************************************)
(* A state-machine model of the chiptune synthesizer plugin                *)
(* (src/src/dsp/chiptune_plugin.cpp): the voice pool, the envelope         *)
(* generator, the channel allocator, the per-block renderer with the       *)
(* register writes it sends to the chip core, and the host entry points    *)
(* (on_midi, set_param, render_block).                                     *)
(*                                                                         *)
(* Numbers.  The C code computes envelopes in float.  The model uses exact *)
(* rationals scaled to integers: an envelope level x is held as            *)
(* x * LevelOne, where LevelOne is a common multiple of every attack,      *)
(* decay and release length the 0..15 parameters can configure and of 15   *)
(* (the sustain denominator), so each increment is an integer.  Pitch is   *)
(* held in cents, frequency in milli-Hertz.                                *)
(***************************************************************************)
EXTENDS Integers, Sequences, FiniteSets, TLC

(* ------------------------------------------------------------------ *)
(* Program constants                                                    *)
(* ------------------------------------------------------------------ *)
NES_CPU_CLOCK == 1789773
GB_CPU_CLOCK == 4194304
SAMPLE_RATE == 44100
FRAMES_PER_BLOCK == 128
MAX_VOICES == 5
NUM_PRESETS == 32
NUM_WAVETABLES == 8

NES_CYCLES_PER_BLOCK == (FRAMES_PER_BLOCK * NES_CPU_CLOCK + SAMPLE_RATE \div 2) \div SAMPLE_RATE
GB_CYCLES_PER_BLOCK == (FRAMES_PER_BLOCK * GB_CPU_CLOCK + SAMPLE_RATE \div 2) \div SAMPLE_RATE

CHIP_NES == 0
CHIP_GB == 1

ALLOC_AUTO == 0
ALLOC_LEAD == 1
ALLOC_LOCKED == 2

CHAN_PULSE1 == 0
CHAN_PULSE2 == 1
CHAN_TRIANGLE == 2
CHAN_WAVE == 2
CHAN_NOISE == 3

ENV_IDLE == 0
ENV_ATTACK == 1
ENV_DECAY == 2
ENV_SUSTAIN == 3
ENV_RELEASE == 4

(* ------------------------------------------------------------------ *)
(* Bounds of the model                                                  *)
(* ------------------------------------------------------------------ *)
\* voice_age_counter is an int that only grows; note-ons are accepted while
\* it is below MaxAge.
MaxAge == 6
\* ... and in a session, where the parameters change as well.
MaxSessionAge == 2
\* ... and in Auto mode under every channel mask.
MaxAutoAge == 3

\* MIDI key numbers and velocities the host sends.
Notes == {60, 100}
Velocities == {0, 100}

\* Every MIDI data byte, for the key of a note message.
AllKeys == 0 .. 127

\* Frame counts the host asks render_block for, and the sample counts the
\* chip core reports as available after a block: none, one, a block less
\* one, a block, and more.
BlockFrames == {2, FRAMES_PER_BLOCK}
Avails == {0, 1, 127, 128, 255, 256, 300}

\* Samples the chip core delivers: the ends of the int16 range, 0, and the
\* values on either side of the point where 6 * sample leaves the range.
CoreSamples == {-32768, -5462, -5461, -1, 0, 1, 5461, 5462, 32767}

\* Keys played when the pitch is under test: the lowest and the highest.
PitchKeys == {0, 127}

\* Pitch-bend messages (data1, data2): full down, centre, full up.
Bends == {<<0, 0>>, <<0, 64>>, <<127, 127>>}

\* LFO phases, in 1/SAMPLE_RATE of a cycle, at which blocks are rendered: the
\* crest and the trough of the cycle, and the block after the crest at the
\* fastest vibrato rate.
LfoPhases == {11025, 12305, 33075}

\* Pitch modulation settings (vibrato_depth, vibrato_rate, detune,
\* pitch_env_depth, pitch_env_speed), all with a running LFO: no modulation,
\* everything at its maximum with a pitch envelope that does not decay, and
\* the same with the fastest decay.
PitchMods == {<<0, 10, 0, 0, 0>>, <<12, 10, 50, 24, 0>>, <<12, 10, 50, 24, 1>>}

\* Keys played in Auto mode: the keys on either side of the high-pitch
\* threshold (notes above 96 go to the noise channel).
AutoKeys == {96, 97}

\* Channel masks stored in Auto mode: every 4-bit mask.
AutoMasks == 0 .. 15

\* Channel masks stored when unison doubling is under test: pulse 2 alone,
\* both pulse channels, and both pulse channels with the noise channel.
UnisonMasks == {2, 3, 11}

\* Envelope settings (attack, decay, sustain, release) whose samples are
\* followed one by one: all instant; slow attack and decay to a sustain
\* level; the same with sustain 0 (attack-decay only); and a slow release
\* from a sustain level.
EnvConfigs == {<<0, 0, 0, 0>>, <<1, 1, 8, 0>>, <<1, 1, 0, 0>>, <<0, 0, 8, 1>>}

\* Vibrato settings (vibrato_depth, vibrato_rate) stored when the LFO is
\* under test: a stopped LFO, and one that wraps after 39 blocks.
LfoMods == {<<12, 0>>, <<12, 9>>}

\* Pitch-envelope settings stored over the preset (pitch_env_depth,
\* pitch_env_speed): held, fastest decay, and a slower decay from a lower
\* start.
PenvMods == {<<24, 0>>, <<24, 1>>, <<12, 3>>}

\* States restored with numbers outside every range: each chip number a
\* stored state can hold (NES, GB, 2, and -1 which the uint8_t cast makes
\* 255), and parameters below their minimum and above their maximum.
ClampStates ==
    { [chip |-> 0, volume |-> 99, duty |-> -5],
      [chip |-> 1, env_attack |-> 16, wavetable |-> 40],
      [chip |-> 2, vibrato_depth |-> 13, octave_transpose |-> -4],
      [chip |-> -1, detune |-> 51, channel_mask |-> 16] }

\* Wavetable indices the host sets: below, inside and above 0..7.
WavetableIdxs == {-1, 3, 8}

\* Mod-wheel positions.
ModWheels == {0, 64, 127}

\* Keys played on the noise channel: the pad range 68..99, the keys on either
\* side of it, and the ends of the MIDI range.
NoiseKeys == {0, 67, 100, 127} \cup (68 .. 99)

\* States the host restores while notes are held: the octave transpose
\* alone, one octave up and back to 0.
OctaveStates == { [octave_transpose |-> 1], [octave_transpose |-> 0] }

\* States the host restores while notes are held: the channel mask alone,
\* pulse 1 only, pulse 2 only, and both pulses with the triangle.
MaskStates ==
    { [channel_mask |-> 1], [channel_mask |-> 2], [channel_mask |-> 7] }

\* What the host sends to stop all sound: the two controllers, chip values
\* (NES, GB and one that names no chip), and preset indices (NES Unison, GB
\* Poly and one past the table).
KillControllers == {120, 123}
KillChips == {0, 1, 2}
KillPresets == {8, 19, 32}

\* Control changes (controller, value) the host sends.
Controllers == { <<1, 64>>, <<123, 0>> }

\* Presets selected in a session: NES Lead, NES Unison, GB Poly.
SessionPresets == {0, 8, 19}

\* The key played while the host edits an instance.
EditKeys == {60}

\* Preset indices the host sends while it edits an instance: GB Poly, and an
\* index on either side of the table.
EditPresets == {-1, 19, 32}

\* States the host restores (the JSON object as a function from its keys to
\* its numbers): envelope and mask stored over the playing preset, with a
\* preset index past the table and a mask above its range; and a preset
\* alone.
SessionStates ==
    { [preset |-> 32, env_attack |-> 0, env_decay |-> 0, env_sustain |-> 0,
       env_release |-> 0, channel_mask |-> 99],
      [preset |-> 0] }

\* The playing configurations: a preset, and the allocation mode, octave
\* transpose and channel mask stored over it.
Cfg(p, am, oct, mask) == [preset |-> p, alloc_mode |-> am,
                          octave_transpose |-> oct, channel_mask |-> mask]

PlayConfigs ==
    { Cfg(5, 1, 0, 1),     \* NES Stab
      Cfg(8, 0, 0, 3),     \* NES Unison
      Cfg(8, 1, 0, 3),     \* NES Unison, Lead
      Cfg(8, 2, 3, 3),     \* NES Unison, Locked, three octaves up
      Cfg(10, 1, 0, 4),    \* Tri Bass
      Cfg(13, 1, 0, 8),    \* NES noise
      Cfg(21, 0, 0, 15),   \* GB Unison, all four channels
      Cfg(23, 1, 0, 1),    \* GB Pluck
      Cfg(27, 1, 0, 4) }   \* GB wave

(* ------------------------------------------------------------------ *)
(* Small helpers                                                        *)
(* ------------------------------------------------------------------ *)
Slots == 0 .. (MAX_VOICES - 1)
Channels == 0 .. 3

Min2(a, b) == IF a < b THEN a ELSE b
Max2(a, b) == IF a > b THEN a ELSE b
Clamp(x, lo, hi) == IF x < lo THEN lo ELSE IF x > hi THEN hi ELSE x

\* mask & (1 << ch)
HasBit(mask, ch) == (mask \div (2 ^ ch)) % 2 = 1

\* C integer division truncates toward zero.
CDiv(a, b) == IF a >= 0 THEN a \div b ELSE -((-a) \div b)

(* ------------------------------------------------------------------ *)
(* Parameters and presets                                               *)
(* ------------------------------------------------------------------ *)
ParamKeys ==
    {"duty", "env_attack", "env_decay", "env_sustain", "env_release", "sweep",
     "vibrato_depth", "vibrato_rate", "noise_mode", "wavetable", "channel_mask",
     "detune", "volume", "octave_transpose", "alloc_mode", "pitch_env_depth",
     "pitch_env_speed"}

\* g_param_defs: the declared range of every parameter.
ParamMin ==
    [k \in ParamKeys |-> IF k = "octave_transpose" THEN -3 ELSE 0]

ParamMax ==
    [duty |-> 3, env_attack |-> 15, env_decay |-> 15, env_sustain |-> 15,
     env_release |-> 15, sweep |-> 7, vibrato_depth |-> 12, vibrato_rate |-> 10,
     noise_mode |-> 1, wavetable |-> 7, channel_mask |-> 15, detune |-> 50,
     volume |-> 15, octave_transpose |-> 3, alloc_mode |-> 2,
     pitch_env_depth |-> 24, pitch_env_speed |-> 15]

\* g_factory_presets, one row per preset, columns:
\* chip, alloc_mode, duty, env_attack, env_decay, env_sustain, env_release,
\* sweep, vibrato_depth, vibrato_rate, noise_mode, wavetable_idx,
\* channel_mask, detune, volume, pitch_env_depth, pitch_env_speed
g_factory_presets == <<
    << 0,  1,  2,  0,  3, 15,  4,  0,  0,  0,  0,  0,  1,  0, 15,  0,  0>>,
    << 0,  1,  1,  0,  3, 15,  4,  0,  0,  0,  0,  0,  1,  0, 14,  0,  0>>,
    << 0,  1,  0,  0,  3, 15,  4,  0,  0,  0,  0,  0,  1,  0, 14,  0,  0>>,
    << 0,  1,  2,  6,  5, 12,  8,  0,  3,  5,  0,  0,  1,  0, 12,  0,  0>>,
    << 0,  1,  1,  0,  3,  0,  0,  0,  0,  0,  0,  0,  1,  0, 15,  0,  0>>,
    << 0,  1,  0,  0,  1,  0,  0,  0,  0,  0,  0,  0,  1,  0, 15,  0,  0>>,
    << 0,  0,  2,  0,  3, 15,  5,  0,  0,  0,  0,  0,  7,  0, 13,  0,  0>>,
    << 0,  0,  1,  0,  2, 12,  3,  0,  0,  0,  0,  0,  7,  0, 14,  0,  0>>,
    << 0,  0,  2,  0,  3, 15,  4,  0,  0,  0,  0,  0,  3,  8, 13,  0,  0>>,
    << 0,  1,  2,  4,  2, 15,  6,  0,  0,  0,  0,  0,  1,  0, 14,  0,  0>>,
    << 0,  1,  2,  0,  6, 10,  3,  0,  0,  0,  0,  0,  4,  0, 15,  0,  0>>,
    << 0,  1,  2,  0,  2,  0,  0,  0,  0,  0,  0,  0,  4,  0, 15, 24,  1>>,
    << 0,  1,  0,  0,  8,  4,  5,  0,  0,  0,  0,  0,  1,  0, 13,  0,  0>>,
    << 0,  1,  0,  0,  1,  0,  0,  0,  0,  0,  1,  0,  8,  0, 15,  0,  0>>,
    << 0,  1,  0,  0,  5,  0,  0,  0,  0,  0,  0,  0,  8,  0, 15,  0,  0>>,
    << 0,  1,  0,  0,  3,  0,  0,  0,  0,  0,  1,  0,  8,  0, 15, 12,  2>>,
    << 1,  1,  2,  0,  3, 15,  4,  0,  0,  0,  0,  0,  1,  0, 14,  0,  0>>,
    << 1,  1,  1,  0,  3, 15,  4,  0,  0,  0,  0,  0,  1,  0, 14,  0,  0>>,
    << 1,  1,  0,  0,  3, 15,  4,  0,  0,  0,  0,  0,  1,  0, 14,  0,  0>>,
    << 1,  0,  2,  0,  3, 15,  5,  0,  0,  0,  0,  0,  7,  0, 13,  0,  0>>,
    << 1,  0,  1,  0,  2, 12,  3,  0,  0,  0,  0,  0,  7,  0, 14,  0,  0>>,
    << 1,  0,  2,  0,  3, 15,  4,  0,  0,  0,  0,  0,  3,  8, 13,  0,  0>>,
    << 1,  1,  2,  0,  3, 15,  5,  0,  4,  6,  0,  0,  1,  0, 13,  0,  0>>,
    << 1,  1,  0,  0,  3,  0,  0,  0,  0,  0,  0,  0,  1,  0, 15,  0,  0>>,
    << 1,  1,  2,  6,  5, 12,  8,  0,  3,  5,  0,  0,  1,  0, 12,  0,  0>>,
    << 1,  1,  2,  0,  4, 12,  3,  0,  0,  0,  0,  0,  4,  0, 15,  0,  0>>,
    << 1,  1,  2,  6,  5, 12,  8,  0,  2,  4,  0,  3,  4,  0, 15,  0,  0>>,
    << 1,  1,  2,  0,  0, 15,  6,  0,  0,  0,  0,  2,  4,  0, 15,  0,  0>>,
    << 1,  1,  2,  0,  6,  0,  0,  0,  0,  0,  0,  6,  4,  0, 15,  0,  0>>,
    << 1,  1,  2,  0,  8,  0,  0,  0,  0,  0,  0,  7,  4,  0, 15,  0,  0>>,
    << 1,  1,  2,  4,  2, 15,  6,  0,  0,  0,  0,  0,  1,  0, 14,  0,  0>>,
    << 1,  1,  0,  0,  8,  4,  5,  0,  0,  0,  0,  0,  1,  0, 13,  0,  0>> >>

\* apply_preset for a valid index: the chip and parameter vector it stores.
\* idx is the C index 0..31; octave_transpose is reset to 0.
PresetChip(idx) == g_factory_presets[idx + 1][1]

PresetParams(idx) ==
    LET p == g_factory_presets[idx + 1]
    IN  [duty |-> p[3], env_attack |-> p[4], env_decay |-> p[5],
         env_sustain |-> p[6], env_release |-> p[7], sweep |-> p[8],
         vibrato_depth |-> p[9], vibrato_rate |-> p[10], noise_mode |-> p[11],
         wavetable |-> p[12], channel_mask |-> p[13], detune |-> p[14],
         volume |-> p[15], octave_transpose |-> 0, alloc_mode |-> p[2],
         pitch_env_depth |-> p[16], pitch_env_speed |-> p[17]]

(* ------------------------------------------------------------------ *)
(* Envelope generator                                                   *)
(* ------------------------------------------------------------------ *)
\* Level 1.0.  Attack lasts a*735 samples, decay and release d*2940 samples,
\* a, d in 1..15; LevelUnit = lcm(1..15), so LevelOne / (a*735) and
\* LevelOne / (d*2940) are integers, and so is s * LevelOne / 15.
LevelUnit == 8 * 9 * 5 * 7 * 11 * 13

LevelOne == (SAMPLE_RATE \div 15) * LevelUnit

env_init ==
    [level |-> 0, stage |-> ENV_IDLE, attack_inc |-> 0, decay_dec |-> 0,
     sustain_level |-> 0, release_dec |-> 0]

\* A configuration without the "instant" case: 0 is taken as 1.
env_configure_slow(env, attack_param, decay_param, sustain_param, release_param) ==
    [env EXCEPT
       !.attack_inc = LevelOne \div (Max2(attack_param, 1) * (SAMPLE_RATE \div 60)),
       !.decay_dec = LevelOne \div (Max2(decay_param, 1) * (SAMPLE_RATE \div 15)),
       !.sustain_level = sustain_param * (LevelOne \div 15),
       !.release_dec = LevelOne \div (Max2(release_param, 1) * (SAMPLE_RATE \div 15))]

env_configure(env, attack_param, decay_param, sustain_param, release_param) ==
    [env EXCEPT
       !.attack_inc = IF attack_param <= 0 THEN LevelOne
                      ELSE LevelOne \div (attack_param * (SAMPLE_RATE \div 60)),
       !.decay_dec = IF decay_param <= 0 THEN LevelOne
                     ELSE LevelOne \div (decay_param * (SAMPLE_RATE \div 15)),
       !.sustain_level = sustain_param * (LevelOne \div 15),
       !.release_dec = IF release_param <= 0 THEN LevelOne
                       ELSE LevelOne \div (release_param * (SAMPLE_RATE \div 15))]

env_gate_on(env) == [env EXCEPT !.stage = ENV_ATTACK]

env_gate_off(env) ==
    IF env.stage # ENV_IDLE THEN [env EXCEPT !.stage = ENV_RELEASE] ELSE env

\* A sample step whose decay always ends in Sustain.
env_process_noIdle(env) ==
    CASE env.stage = ENV_ATTACK ->
           LET l == env.level + env.attack_inc
           IN  IF l >= LevelOne
               THEN [env EXCEPT !.level = LevelOne, !.stage = ENV_DECAY]
               ELSE [env EXCEPT !.level = l]
      [] env.stage = ENV_DECAY ->
           LET l == env.level - env.decay_dec
           IN  IF l <= env.sustain_level
               THEN [env EXCEPT !.level = env.sustain_level,
                                !.stage = ENV_SUSTAIN]
               ELSE [env EXCEPT !.level = l]
      [] env.stage = ENV_SUSTAIN -> env
      [] env.stage = ENV_RELEASE ->
           LET l == env.level - env.release_dec
           IN  IF l <= 0
               THEN [env EXCEPT !.level = 0, !.stage = ENV_IDLE]
               ELSE [env EXCEPT !.level = l]
      [] OTHER -> [env EXCEPT !.level = 0]

\* One sample.
env_process(env) ==
    CASE env.stage = ENV_ATTACK ->
           LET l == env.level + env.attack_inc
           IN  IF l >= LevelOne
               THEN [env EXCEPT !.level = LevelOne, !.stage = ENV_DECAY]
               ELSE [env EXCEPT !.level = l]
      [] env.stage = ENV_DECAY ->
           LET l == env.level - env.decay_dec
           IN  IF l <= env.sustain_level
               THEN [env EXCEPT !.level = env.sustain_level,
                                !.stage = IF env.sustain_level > 0
                                          THEN ENV_SUSTAIN ELSE ENV_IDLE]
               ELSE [env EXCEPT !.level = l]
      [] env.stage = ENV_SUSTAIN -> env
      [] env.stage = ENV_RELEASE ->
           LET l == env.level - env.release_dec
           IN  IF l <= 0
               THEN [env EXCEPT !.level = 0, !.stage = ENV_IDLE]
               ELSE [env EXCEPT !.level = l]
      [] OTHER -> [env EXCEPT !.level = 0]

\* The renderer's loop: for (s = 0; s < frames; s++) env_process(&v->env);
\* env_process leaves a Sustain envelope, and an Idle one at level 0, as it
\* is, so the loop is cut short there; a longer run is evaluated as two
\* halves, one after the other.
RECURSIVE env_advance(_, _)
env_advance(env, frames) ==
    IF frames <= 0 \/ env.stage = ENV_SUSTAIN
       \/ (env.stage = ENV_IDLE /\ env.level = 0)
    THEN env
    ELSE IF frames = 1 THEN env_process(env)
    ELSE env_advance(env_advance(env, frames \div 2), frames - frames \div 2)

(* ------------------------------------------------------------------ *)
(* Voices                                                               *)
(* ------------------------------------------------------------------ *)
\* A slot of the pool as `new chiptune_instance_t()` leaves it (zeroed) and
\* v2_create_instance initialises it (inactive, env_init).
voice_init ==
    [active |-> FALSE, note |-> 0, velocity |-> 0, channel_idx |-> 0,
     channel_type |-> 0, age |-> 0, triggered |-> FALSE, env |-> env_init,
     pitch_env |-> 0]

VARIABLES
    chip,                 \* inst->chip
    params,               \* inst->params[P_COUNT]
    current_preset,       \* inst->current_preset
    voices,               \* inst->voices[MAX_VOICES]
    voice_age_counter,    \* inst->voice_age_counter
    lfo_phase,            \* inst->lfo_phase, in units of 1/SAMPLE_RATE of a cycle
    pitch_bend_semitones, \* inst->pitch_bend_semitones, in units of 1/4096 semitone
    writes,               \* register writes the last render_block sent to the chip core
    core,                 \* the chip core: the amplitude each channel was last set to
    out,                  \* what the last render_block produced: "zero" or "pcm"
    buffer,               \* out_interleaved_lr after the last render_block call,
                          \* as runs <<content, number of int16 positions>>
    unread                \* per chip, the core's sample buffer: samples produced
                          \* and not yet read, and the clock time carried over

vars == <<chip, params, current_preset, voices, voice_age_counter, lfo_phase,
          pitch_bend_semitones, writes, core, out, buffer, unread>>

(* ------------------------------------------------------------------ *)
(* Voice allocation                                                     *)
(* ------------------------------------------------------------------ *)
\* A kill that clears the active flags and leaves the envelopes as they are.
kill_all_voices_keepEnv(vs) ==
    [i \in Slots |-> [vs[i] EXCEPT !.active = FALSE]]

kill_all_voices(vs) ==
    [i \in Slots |-> [vs[i] EXCEPT !.active = FALSE, !.env = env_init]]

\* for (v...) if (voices[v].active && voices[v].channel_idx == ch) in_use = 1;
InUse(vs, ch) == \E v \in Slots : vs[v].active /\ vs[v].channel_idx = ch

\* A scan that keeps the largest age instead: the youngest voice of S.
OldestOf_youngest(vs, S) ==
    CHOOSE v \in S : \A w \in S : vs[v].age >= vs[w].age

\* The scans `if (voices[v].age < oldest_age) { oldest_age = ...; oldest = v; }`
\* over the slots of S in index order: the first slot holding the smallest age.
OldestOf(vs, S) ==
    CHOOSE v \in S : \A w \in S : \/ vs[v].age < vs[w].age
                                  \/ vs[v].age = vs[w].age /\ v <= w

\* A scan that runs from channel 3 down: the last channel of S.
FirstChannel_last(S, dflt) ==
    IF S = {} THEN dflt ELSE CHOOSE ch \in S : \A c \in S : ch >= c

\* for (ch = 0; ch < 4; ch++) if (cond(ch)) return ch;  ... return dflt;
FirstChannel(S, dflt) ==
    IF S = {} THEN dflt ELSE CHOOSE ch \in S : \A c \in S : ch <= c

\* A pick that treats Lead mode as Auto mode.
pick_channel_leadAsAuto(vs, ps, note) ==
    LET mask == ps.channel_mask
        pulse == {ch \in {0, 1} : HasBit(mask, ch) /\ ~InUse(vs, ch)}
        act == {v \in Slots : vs[v].active}
    IN  IF note > 96 /\ HasBit(mask, 3) THEN 3
        ELSE IF pulse # {} THEN FirstChannel(pulse, 0)
        ELSE IF HasBit(mask, 2) /\ ~InUse(vs, 2) THEN 2
        ELSE IF HasBit(mask, 3) /\ ~InUse(vs, 3) THEN 3
        ELSE IF act # {} THEN vs[OldestOf(vs, act)].channel_idx
        ELSE 0

pick_channel(vs, ps, note) ==
    LET mask == ps.channel_mask
        alloc == ps.alloc_mode
        enabled == {ch \in Channels : HasBit(mask, ch)}
    IN  IF alloc = ALLOC_LOCKED THEN
            LET free == {ch \in enabled : ~InUse(vs, ch)}
                cand == {v \in Slots : vs[v].active /\ HasBit(mask, vs[v].channel_idx)}
            IN  IF free # {} THEN FirstChannel(free, 0)
                ELSE IF cand # {} THEN vs[OldestOf(vs, cand)].channel_idx
                ELSE FirstChannel(enabled, 0)
        ELSE IF alloc = ALLOC_LEAD THEN FirstChannel(enabled, 0)
        ELSE
            LET pulse == {ch \in {0, 1} : HasBit(mask, ch) /\ ~InUse(vs, ch)}
                act == {v \in Slots : vs[v].active}
            IN  IF note > 96 /\ HasBit(mask, 3) THEN 3
                ELSE IF pulse # {} THEN FirstChannel(pulse, 0)
                ELSE IF HasBit(mask, 2) /\ ~InUse(vs, 2) THEN 2
                ELSE IF HasBit(mask, 3) /\ ~InUse(vs, 3) THEN 3
                ELSE IF act # {} THEN vs[OldestOf(vs, act)].channel_idx
                ELSE 0

allocate_voice(vs) ==
    LET inactive == {i \in Slots : ~vs[i].active}
    IN  IF inactive # {} THEN CHOOSE i \in inactive : \A j \in inactive : i <= j
        ELSE OldestOf(vs, Slots)

\* The channel type stored with a voice on channel chan.
ChannelType(c, chan) ==
    IF chan = 3 THEN CHAN_NOISE
    ELSE IF chan = 2 THEN (IF c = CHIP_NES THEN CHAN_TRIANGLE ELSE CHAN_WAVE)
    ELSE chan

\* A transposition that is not clamped.
TransposedNote_unclamped(data1, ps) == data1 + ps.octave_transpose * 12

\* note = data1 + octave * 12, clamped to 0..127
TransposedNote(data1, ps) == Clamp(data1 + ps.octave_transpose * 12, 0, 127)

\* A note-off loop that stops at the first matching voice.
ReleaseNote_first(vs, note) ==
    LET hit == {i \in Slots : vs[i].active /\ vs[i].note = note}
    IN  [i \in Slots |->
            IF i \in hit /\ \A j \in hit : i <= j
            THEN [vs[i] EXCEPT !.env = env_gate_off(vs[i].env), !.active = FALSE]
            ELSE vs[i]]

\* The note-off loop: gate off and deactivate every active voice with this note.
\* A note-off that gates the envelope off and lets the release tail play.
ReleaseNote_tail(vs, note) ==
    [i \in Slots |->
        IF vs[i].active /\ vs[i].note = note
        THEN [vs[i] EXCEPT !.env = env_gate_off(vs[i].env)]
        ELSE vs[i]]

ReleaseNote(vs, note) ==
    [i \in Slots |->
        IF vs[i].active /\ vs[i].note = note
        THEN [vs[i] EXCEPT !.env = env_gate_off(vs[i].env), !.active = FALSE]
        ELSE vs[i]]

\* A note-on that leaves the voices of a Lead instance alone.
LeadKill_none(vs, ps) == vs

\* In LEAD mode, kill existing voices first.
LeadKill(vs, ps) ==
    IF ps.alloc_mode = ALLOC_LEAD
    THEN [i \in Slots |->
            IF vs[i].active THEN [vs[i] EXCEPT !.active = FALSE, !.env = env_init]
            ELSE vs[i]]
    ELSE vs

\* The envelope a note-on gives its voice.
NoteOnEnv(ps) ==
    env_gate_on(env_configure(env_init, ps.env_attack, ps.env_decay,
                              ps.env_sustain, ps.env_release))

\* A note-on that never doubles.
UnisonSlot_none(vs, ps, chan, vi) == -1

\* A double that takes the first slot other than vi, active or not.
UnisonSlot_steal(vs, ps, chan, vi) ==
    LET other == Slots \ {vi}
    IN  IF ps.detune > 0 /\ ps.channel_mask % 4 = 3 /\ chan < 2
        THEN CHOOSE i \in other : \A j \in other : i <= j
        ELSE -1

\* The slot of the unison double, or -1: the first inactive slot other than vi.
UnisonSlot(vs, ps, chan, vi) ==
    LET free == {i \in Slots : i # vi /\ ~vs[i].active}
    IN  IF ps.detune > 0 /\ ps.channel_mask % 4 = 3 /\ chan < 2 /\ free # {}
        THEN CHOOSE i \in free : \A j \in free : i <= j
        ELSE -1

\* A note-on that moves every sounding voice to the noise channel first.
NoteOnVoices_moving(vs, ps, c, counter, data1, data2) ==
    LET note == TransposedNote(data1, ps)
        vs1 == [i \in Slots |-> [LeadKill(vs, ps)[i] EXCEPT !.channel_idx = 3]]
        chan == pick_channel(vs1, ps, note)
        vi == allocate_voice(vs1)
        v == [active |-> TRUE, note |-> note, velocity |-> data2,
              channel_idx |-> chan, channel_type |-> ChannelType(c, chan),
              age |-> counter + 1, triggered |-> FALSE,
              env |-> NoteOnEnv(ps), pitch_env |-> ps.pitch_env_depth * 1000]
    IN  [vs1 EXCEPT ![vi] = v]

\* A note-on that stamps the unison double with the primary's age.
NoteOnVoices_sameStamp(vs, ps, c, counter, data1, data2) ==
    LET note == TransposedNote(data1, ps)
        vs1 == LeadKill(vs, ps)
        chan == pick_channel(vs1, ps, note)
        vi == allocate_voice(vs1)
        v == [active |-> TRUE, note |-> note, velocity |-> data2,
              channel_idx |-> chan, channel_type |-> ChannelType(c, chan),
              age |-> counter + 1, triggered |-> FALSE,
              env |-> NoteOnEnv(ps), pitch_env |-> ps.pitch_env_depth * 1000]
        vs2 == [vs1 EXCEPT ![vi] = v]
        vi2 == UnisonSlot(vs2, ps, chan, vi)
        chan2 == IF chan = 0 THEN 1 ELSE 0
        v2 == [v EXCEPT !.channel_idx = chan2, !.channel_type = chan2]
    IN  IF vi2 >= 0 THEN [vs2 EXCEPT ![vi2] = v2] ELSE vs2

\* case 0x90 with data2 > 0: the voice pool after the note-on.
NoteOnVoices(vs, ps, c, counter, data1, data2) ==
    LET note == TransposedNote(data1, ps)
        vs1 == LeadKill(vs, ps)
        chan == pick_channel(vs1, ps, note)
        vi == allocate_voice(vs1)
        v == [active |-> TRUE, note |-> note, velocity |-> data2,
              channel_idx |-> chan, channel_type |-> ChannelType(c, chan),
              age |-> counter + 1, triggered |-> FALSE,
              env |-> NoteOnEnv(ps), pitch_env |-> ps.pitch_env_depth * 1000]
        vs2 == [vs1 EXCEPT ![vi] = v]
        vi2 == UnisonSlot(vs2, ps, chan, vi)
        chan2 == IF chan = 0 THEN 1 ELSE 0
        v2 == [v EXCEPT !.channel_idx = chan2, !.channel_type = chan2,
                        !.age = counter + 2]
    IN  IF vi2 >= 0 THEN [vs2 EXCEPT ![vi2] = v2] ELSE vs2

\* The age counter after the note-on: one more per voice allocated.
NoteOnCounter(vs, ps, counter, data1) ==
    LET note == TransposedNote(data1, ps)
        vs1 == LeadKill(vs, ps)
        chan == pick_channel(vs1, ps, note)
        vi == allocate_voice(vs1)
        vs2 == [vs1 EXCEPT ![vi].active = TRUE]
    IN  IF UnisonSlot(vs2, ps, chan, vi) >= 0 THEN counter + 2 ELSE counter + 1

(* ------------------------------------------------------------------ *)
(* Pitch modulator                                                      *)
(* ------------------------------------------------------------------ *)
\* 440 * 2^(k/12) Hz in milli-Hertz, k = 0..12 (A4 .. A5).
SemitoneMilliHz ==
    <<440000, 466164, 493883, 523251, 554365, 587330, 622254, 659255,
      698456, 739989, 783991, 830609, 880000>>

\* 440 * 2^((cents - 6900)/1200) in milli-Hertz: midi_to_freq and the powf
\* multipliers of the renderer, whose exponents add up to `cents`.  Between
\* two semitones the value is interpolated linearly.
FreqMilliHz(cents) ==
    LET rel == cents - 6900
        oct == rel \div 1200
        r == rel % 1200
        k == r \div 100
        f0 == SemitoneMilliHz[k + 1]
              + ((SemitoneMilliHz[k + 2] - SemitoneMilliHz[k + 1]) * (r % 100)) \div 100
    IN  IF oct >= 0 THEN f0 * (2 ^ oct) ELSE f0 \div (2 ^ (-oct))

\* 1000 * sin(2 pi k / 24), k = 0..24.
SineMilli ==
    <<0, 259, 500, 707, 866, 966, 1000, 966, 866, 707, 500, 259, 0,
      -259, -500, -707, -866, -966, -1000, -966, -866, -707, -500, -259, 0>>

\* sinf(lfo_phase * 2 pi) * vib_depth, in cents (vib_depth is in cents);
\* phase is in units of 1/SAMPLE_RATE of a cycle.
VibratoCents(phase, vib_depth, vib_rate) ==
    IF vib_depth > 0 /\ vib_rate > 0
    THEN LET k == (phase * 24) \div SAMPLE_RATE
             fr == (phase * 24) % SAMPLE_RATE
             sn == SineMilli[k + 1]
                   + ((SineMilli[k + 2] - SineMilli[k + 1]) * fr) \div SAMPLE_RATE
         IN  (sn * vib_depth + 500) \div 1000
    ELSE 0

\* The pitch envelope is held in 1/1000 semitone; it acts while > 0.01.
PitchEnvCents(pe) == IF pe > 10 THEN pe \div 10 ELSE 0

\* decay_per_sample = pitch_env / (speed * (SAMPLE_RATE / 60));
\* pitch_env -= decay_per_sample * frames; clamped at 0.
PitchEnvNext(pe, speed, frames) ==
    IF pe > 10 /\ speed > 0
    THEN Max2(0, pe - (pe * frames) \div (speed * (SAMPLE_RATE \div 60)))
    ELSE pe

\* The frequency the renderer computes for voice v in this block, milli-Hertz.
VoiceFreq(v, ps, bend, phase) ==
    FreqMilliHz(v.note * 100
                + (bend * 100) \div 4096
                + PitchEnvCents(v.pitch_env)
                + VibratoCents(phase, ps.vibrato_depth, ps.vibrato_rate)
                + (IF ps.detune > 0 /\ v.channel_idx = 1 THEN ps.detune ELSE 0))

\* (int)(num / (den * f) - 1.0f + 0.5f) for f >= 1 Hz, f in milli-Hertz.
RoundedPeriod(clock, den, fm) ==
    LET f == Max2(fm, 1000)
        d == den * f
        q == (clock * 1000) \div d
        r == (clock * 1000) % d
    IN  IF r >= d - r THEN q ELSE Max2(q - 1, 0)

\* A period computation without the range checks.
nes_pulse_period_unclamped(fm) == RoundedPeriod(NES_CPU_CLOCK, 16, fm)

nes_pulse_period(fm) == Clamp(RoundedPeriod(NES_CPU_CLOCK, 16, fm), 0, 2047)

nes_triangle_period(fm) == Clamp(RoundedPeriod(NES_CPU_CLOCK, 32, fm), 0, 2047)

\* A lookup that gives every note its own index.
nes_noise_period_from_note_perNote(note) == Clamp(15 - (note - 68), 0, 15)

nes_noise_period_from_note(note) == Clamp(15 - CDiv(note - 68, 2), 0, 15)

\* (int)(2048.0f - num / f + 0.5f), clamped to 0..2047; num is 131072 or 65536.
GbFreqReg(num, fm) ==
    LET f == Max2(fm, 1000)
        a == 2 * num * 1000 - f
        b == 2 * f
    IN  IF a <= 0 THEN 2047 ELSE Clamp(2048 - ((a + b - 1) \div b), 0, 2047)

gb_square_freq_reg(fm) == GbFreqReg(131072, fm)

gb_wave_freq_reg(fm) == GbFreqReg(65536, fm)

\* noise_table[idx] = {shift, divisor code}
noise_table ==
    << <<13, 1>>, <<12, 1>>, <<11, 1>>, <<10, 1>>, <<9, 1>>, <<8, 1>>,
       <<7, 1>>, <<6, 1>>, <<5, 1>>, <<4, 1>>, <<3, 1>>, <<3, 0>>,
       <<2, 1>>, <<2, 0>>, <<1, 1>>, <<0, 1>> >>

gb_noise_params_from_note(note, short_mode) ==
    LET idx == Clamp(CDiv(note - 68, 2), 0, 15)
    IN  (noise_table[idx + 1][1] * 16)
        + (IF short_mode # 0 THEN 8 ELSE 0)
        + (noise_table[idx + 1][2] % 8)

(* ------------------------------------------------------------------ *)
(* Volume                                                               *)
(* ------------------------------------------------------------------ *)
\* (int)(avg_level * preset_vol / 15.0f * 15.0f + 0.5f), level scaled by
\* LevelOne = 2940 * LevelUnit; the division is done in two steps to stay
\* within 32 bits.
LevelTimesVolRounded(level, preset_vol) ==
    LET a == level \div LevelUnit
        b == level % LevelUnit
        n == SAMPLE_RATE \div 15
    IN  (2 * preset_vol * a + n + (2 * preset_vol * b) \div LevelUnit) \div (2 * n)

\* A volume that leaves the envelope out.
NesVolume_full(level, preset_vol, velocity) ==
    Min2((preset_vol * velocity) \div 127, 15)

\* NES: apu_vol from the block-start level, the volume parameter and velocity.
NesVolume(level, preset_vol, velocity) ==
    Min2((Clamp(LevelTimesVolRounded(level, preset_vol), 0, 15) * velocity) \div 127, 15)

\* GB: gb_vol = (int)(preset_vol * velocity / 127.0f + 0.5f), kept in 1..15.
GbVolume(preset_vol, velocity) ==
    Clamp((2 * preset_vol * velocity + 127) \div 254, 1, 15)

(* ------------------------------------------------------------------ *)
(* Channel encoders: the register writes of one voice in one block      *)
(* ------------------------------------------------------------------ *)
\* A write is [time, addr, val].  NES registers are $4000 + off, Game Boy
\* registers $FF00 + off.
NesReg(off) == 16384 + off
GbReg(off) == 65280 + off

W(time, addr, val) == [time |-> time, addr |-> addr, val |-> val]

nes_write_pulse(chan_idx, time, duty, vol, fm, do_trigger) ==
    LET base == IF chan_idx = 0 THEN 0 ELSE 4
        period == nes_pulse_period(fm)
        reg0 == (duty % 4) * 64 + 48 + (vol % 16)
    IN  << W(time, NesReg(base + 0), reg0),
           W(time + 1, NesReg(base + 2), period % 256) >>
        \o (IF do_trigger
            THEN << W(time + 2, NesReg(base + 1), 0),
                    W(time + 3, NesReg(base + 3), 248 + ((period \div 256) % 8)) >>
            ELSE << >>)

nes_write_triangle(time, gate, fm, do_trigger) ==
    LET period == nes_triangle_period(fm)
        reg8 == IF gate THEN 255 ELSE 128
    IN  << W(time, NesReg(8), reg8),
           W(time + 1, NesReg(10), period % 256) >>
        \o (IF do_trigger
            THEN << W(time + 2, NesReg(11), 248 + ((period \div 256) % 8)) >>
            ELSE << >>)

nes_write_noise(time, vol, note, short_mode, do_trigger) ==
    LET period_idx == nes_noise_period_from_note(note)
        regC == 48 + (vol % 16)
        regE == (IF short_mode # 0 THEN 128 ELSE 0) + (period_idx % 16)
    IN  << W(time, NesReg(12), regC), W(time + 1, NesReg(14), regE) >>
        \o (IF do_trigger THEN << W(time + 2, NesReg(15), 248) >> ELSE << >>)

nes_silence_channel(chan_idx, time) ==
    CASE chan_idx = 0 -> << W(time, NesReg(0), 48) >>
      [] chan_idx = 1 -> << W(time, NesReg(4), 48) >>
      [] chan_idx = 2 -> << W(time, NesReg(8), 128) >>
      [] chan_idx = 3 -> << W(time, NesReg(12), 48) >>
      [] OTHER -> << >>

gb_write_square1(time, duty, vol, fm, sweep, do_trigger) ==
    LET freq_reg == gb_square_freq_reg(fm)
        sweep_reg == IF sweep > 0 THEN (sweep % 8) * 16 + 2 ELSE 0
    IN  IF do_trigger
        THEN << W(time, GbReg(18), (vol % 16) * 16),
                W(time + 1, GbReg(19), freq_reg % 256),
                W(time + 2, GbReg(16), sweep_reg),
                W(time + 3, GbReg(17), (duty % 4) * 64 + 63),
                W(time + 4, GbReg(20), 128 + ((freq_reg \div 256) % 8)) >>
        ELSE << W(time, GbReg(19), freq_reg % 256),
                W(time + 1, GbReg(20), (freq_reg \div 256) % 8) >>

gb_write_square2(time, duty, vol, fm, do_trigger) ==
    LET freq_reg == gb_square_freq_reg(fm)
    IN  IF do_trigger
        THEN << W(time, GbReg(23), (vol % 16) * 16),
                W(time + 1, GbReg(24), freq_reg % 256),
                W(time + 2, GbReg(22), (duty % 4) * 64 + 63),
                W(time + 3, GbReg(25), 128 + ((freq_reg \div 256) % 8)) >>
        ELSE << W(time, GbReg(24), freq_reg % 256),
                W(time + 1, GbReg(25), (freq_reg \div 256) % 8) >>

gb_write_wave(time, vol, fm, do_trigger) ==
    LET freq_reg == gb_wave_freq_reg(fm)
        wave_vol == IF vol >= 12 THEN 1
                    ELSE IF vol >= 8 THEN 2
                    ELSE IF vol >= 4 THEN 3
                    ELSE 0
    IN  << W(time, GbReg(28), (wave_vol % 4) * 32),
           W(time + 1, GbReg(29), freq_reg % 256) >>
        \o (IF do_trigger
            THEN << W(time + 2, GbReg(26), 128),
                    W(time + 3, GbReg(30), 128 + ((freq_reg \div 256) % 8)) >>
            ELSE << W(time + 2, GbReg(30), (freq_reg \div 256) % 8) >>)

gb_write_noise(time, vol, note, short_mode, do_trigger) ==
    LET poly_reg == gb_noise_params_from_note(note, short_mode)
    IN  IF do_trigger
        THEN << W(time, GbReg(33), (vol % 16) * 16),
                W(time + 1, GbReg(34), poly_reg),
                W(time + 2, GbReg(32), 63),
                W(time + 3, GbReg(35), 128) >>
        ELSE << W(time, GbReg(34), poly_reg) >>

gb_silence_channel(chan_idx, time) ==
    CASE chan_idx = 0 -> << W(time, GbReg(18), 0), W(time + 1, GbReg(20), 128) >>
      [] chan_idx = 1 -> << W(time, GbReg(23), 0), W(time + 1, GbReg(25), 128) >>
      [] chan_idx = 2 -> << W(time, GbReg(28), 0) >>
      [] chan_idx = 3 -> << W(time, GbReg(33), 0), W(time + 1, GbReg(35), 128) >>
      [] OTHER -> << >>

(* ------------------------------------------------------------------ *)
(* Chip core (external): what the model keeps of it                     *)
(* ------------------------------------------------------------------ *)
\* The cores execute timestamped register writes; the model keeps, per chip
\* and channel, the amplitude the channel was last set to (NES: the volume
\* nibble of $4000/$4004/$400C and the triangle's linear-counter reload;
\* GB: the volume nibble of NR12/NR22/NR42 and the NR32 volume code).
AmpChannel(c, w) ==
    IF c = CHIP_NES
    THEN CASE w.addr = NesReg(0) -> 0
           [] w.addr = NesReg(4) -> 1
           [] w.addr = NesReg(8) -> 2
           [] w.addr = NesReg(12) -> 3
           [] OTHER -> -1
    ELSE CASE w.addr = GbReg(18) -> 0
           [] w.addr = GbReg(23) -> 1
           [] w.addr = GbReg(28) -> 2
           [] w.addr = GbReg(33) -> 3
           [] OTHER -> -1

AmpValue(c, w) ==
    IF c = CHIP_NES
    THEN (IF w.addr = NesReg(8) THEN w.val % 128 ELSE w.val % 16)
    ELSE (IF w.addr = GbReg(28) THEN (w.val \div 32) % 4 ELSE w.val \div 16)

AmpWrites(c, ws, ch) == SelectSeq(ws, LAMBDA w : AmpChannel(c, w) = ch)

\* The channel amplitudes after the core has executed the block's writes.
CoreAfter(c, prev, ws) ==
    [ch \in Channels |->
        LET aw == AmpWrites(c, ws, ch)
        IN  IF aw = << >> THEN prev[ch] ELSE AmpValue(c, aw[Len(aw)])]

\* The block's PCM is not all zero when some channel has a non-zero amplitude
\* over some cycles of the block: it entered the block sounding and is not
\* rewritten at cycle 0, or the block sets it to a non-zero amplitude.
CoreAudible(c, prev, ws) ==
    \E ch \in Channels :
        LET aw == AmpWrites(c, ws, ch)
        IN  \/ prev[ch] > 0 /\ (aw = << >> \/ aw[1].time > 0)
            \/ \E i \in DOMAIN aw : AmpValue(c, aw[i]) > 0

(* ------------------------------------------------------------------ *)
(* Block renderer                                                       *)
(* ------------------------------------------------------------------ *)
\* A voice loop that passes do_trigger = 1 in every block.
NesVoiceWrites_retrigger(v, avg_level, time, ps, fm) ==
    LET apu_vol == NesVolume(avg_level, ps.volume, v.velocity)
    IN  CASE v.channel_type = CHAN_PULSE1 ->
               nes_write_pulse(0, time, ps.duty, apu_vol, fm, TRUE)
          [] v.channel_type = CHAN_PULSE2 ->
               nes_write_pulse(1, time, ps.duty, apu_vol, fm, TRUE)
          [] v.channel_type = CHAN_TRIANGLE ->
               nes_write_triangle(time, apu_vol > 0, fm, TRUE)
          [] v.channel_type = CHAN_NOISE ->
               nes_write_noise(time, apu_vol, v.note, ps.noise_mode, TRUE)
          [] OTHER -> << >>

NesVoiceWrites(v, avg_level, time, ps, fm) ==
    LET apu_vol == NesVolume(avg_level, ps.volume, v.velocity)
        do_trigger == ~v.triggered
    IN  CASE v.channel_type = CHAN_PULSE1 ->
               nes_write_pulse(0, time, ps.duty, apu_vol, fm, do_trigger)
          [] v.channel_type = CHAN_PULSE2 ->
               nes_write_pulse(1, time, ps.duty, apu_vol, fm, do_trigger)
          [] v.channel_type = CHAN_TRIANGLE ->
               nes_write_triangle(time, apu_vol > 0, fm, do_trigger)
          [] v.channel_type = CHAN_NOISE ->
               nes_write_noise(time, apu_vol, v.note, ps.noise_mode, do_trigger)
          [] OTHER -> << >>

NesVoiceTime(v) ==
    CASE v.channel_type \in {CHAN_PULSE1, CHAN_PULSE2} -> 4
      [] v.channel_type \in {CHAN_TRIANGLE, CHAN_NOISE} -> 3
      [] OTHER -> 0

GbVoiceWrites(v, time, ps, fm) ==
    LET gb_vol == GbVolume(ps.volume, v.velocity)
        do_trigger == ~v.triggered
    IN  CASE v.channel_idx = 0 ->
               gb_write_square1(time, ps.duty, gb_vol, fm, ps.sweep, do_trigger)
          [] v.channel_idx = 1 ->
               gb_write_square2(time, ps.duty, gb_vol, fm, do_trigger)
          [] v.channel_idx = 2 ->
               gb_write_wave(time, gb_vol, fm, do_trigger)
          [] v.channel_idx = 3 ->
               gb_write_noise(time, gb_vol, v.note, ps.noise_mode, do_trigger)
          [] OTHER -> << >>

\* A voice loop that leaves gb_time where it was.
GbVoiceTime_stuck(v) == 0

GbVoiceTime(v) ==
    LET do_trigger == ~v.triggered
    IN  CASE v.channel_idx = 0 -> IF do_trigger THEN 5 ELSE 2
          [] v.channel_idx = 1 -> IF do_trigger THEN 4 ELSE 2
          [] v.channel_idx = 2 -> 4
          [] v.channel_idx = 3 -> IF do_trigger THEN 4 ELSE 1
          [] OTHER -> 0

\* A voice loop that takes the level for the volume after the block's
\* envelope advance.
render_voice_levelAfter(acc, vi, c, ps, bend, phase, frames) ==
    LET v == acc.vs[vi]
        env2 == env_advance(v.env, frames)
        avg_level == env2.level
    IN  IF ~v.active THEN acc
        ELSE IF env2.stage = ENV_IDLE
        THEN [acc EXCEPT
                !.vs[vi] = [v EXCEPT !.env = env2, !.active = FALSE],
                !.ws = @ \o (IF c = CHIP_NES
                             THEN nes_silence_channel(v.channel_idx, acc.t)
                             ELSE gb_silence_channel(v.channel_idx, acc.t)),
                !.t = @ + (IF c = CHIP_NES THEN 2 ELSE 4)]
        ELSE LET fm == VoiceFreq(v, ps, bend, phase)
                 v2 == [v EXCEPT !.env = env2,
                                 !.pitch_env = PitchEnvNext(v.pitch_env,
                                                    ps.pitch_env_speed, frames),
                                 !.triggered = TRUE]
             IN  [acc EXCEPT
                    !.vs[vi] = v2,
                    !.ws = @ \o (IF c = CHIP_NES
                                 THEN NesVoiceWrites(v, avg_level, acc.t, ps, fm)
                                 ELSE GbVoiceWrites(v, acc.t, ps, fm)),
                    !.t = @ + (IF c = CHIP_NES THEN NesVoiceTime(v)
                               ELSE GbVoiceTime(v)),
                    !.lev = @ \/ avg_level > 0,
                    !.cnt = @ + 1]

\* One iteration of the voice loop.  acc = [t, ws, vs, lev, cnt]: the time
\* offset, the writes so far, the pool, whether a block-start level added to
\* gb_env_level was non-zero, and gb_active_count.
render_voice(acc, vi, c, ps, bend, phase, frames) ==
    LET v == acc.vs[vi]
        avg_level == v.env.level
        env2 == env_advance(v.env, frames)
    IN  IF ~v.active THEN acc
        ELSE IF env2.stage = ENV_IDLE
        THEN [acc EXCEPT
                !.vs[vi] = [v EXCEPT !.env = env2, !.active = FALSE],
                !.ws = @ \o (IF c = CHIP_NES
                             THEN nes_silence_channel(v.channel_idx, acc.t)
                             ELSE gb_silence_channel(v.channel_idx, acc.t)),
                !.t = @ + (IF c = CHIP_NES THEN 2 ELSE 4)]
        ELSE LET fm == VoiceFreq(v, ps, bend, phase)
                 v2 == [v EXCEPT !.env = env2,
                                 !.pitch_env = PitchEnvNext(v.pitch_env,
                                                    ps.pitch_env_speed, frames),
                                 !.triggered = TRUE]
             IN  [acc EXCEPT
                    !.vs[vi] = v2,
                    !.ws = @ \o (IF c = CHIP_NES
                                 THEN NesVoiceWrites(v, avg_level, acc.t, ps, fm)
                                 ELSE GbVoiceWrites(v, acc.t, ps, fm)),
                    !.t = @ + (IF c = CHIP_NES THEN NesVoiceTime(v)
                               ELSE GbVoiceTime(v)),
                    !.lev = @ \/ avg_level > 0,
                    !.cnt = @ + 1]

RECURSIVE render_voices(_, _, _, _, _, _, _)
render_voices(acc, vi, c, ps, bend, phase, frames) ==
    IF vi >= MAX_VOICES THEN acc
    ELSE render_voices(render_voice(acc, vi, c, ps, bend, phase, frames),
                       vi + 1, c, ps, bend, phase, frames)

\* A renderer without the loop that silences the unused channels.
silence_channels_none(acc, ch, c) == acc

\* Silence inactive channels: for (ch = 0; ch < 4; ch++) if (!in_use) ...
RECURSIVE silence_channels(_, _, _)
silence_channels(acc, ch, c) ==
    IF ch >= 4 THEN acc
    ELSE IF InUse(acc.vs, ch) THEN silence_channels(acc, ch + 1, c)
    ELSE silence_channels(
            [acc EXCEPT
               !.ws = @ \o (IF c = CHIP_NES THEN nes_silence_channel(ch, acc.t)
                            ELSE gb_silence_channel(ch, acc.t)),
               !.t = @ + (IF c = CHIP_NES THEN 2 ELSE 4)],
            ch + 1, c)

\* v2_render_block up to the end_frame call: the pool and the writes.
render_writes(vs, c, ps, bend, phase, frames) ==
    LET acc0 == [t |-> IF c = CHIP_NES THEN 1 ELSE 0,
                 ws |-> IF c = CHIP_NES THEN << W(0, NesReg(21), 15) >> ELSE << >>,
                 vs |-> vs, lev |-> FALSE, cnt |-> 0]
    IN  silence_channels(render_voices(acc0, 0, c, ps, bend, phase, frames), 0, c)

\* An LFO that is never wrapped.
lfo_advance_nowrap(phase, vib_rate, frames) ==
    IF vib_rate > 0 THEN phase + vib_rate * frames ELSE phase

\* Advance LFO.
lfo_advance(phase, vib_rate, frames) ==
    IF vib_rate > 0 THEN (phase + vib_rate * frames) % SAMPLE_RATE ELSE phase

\* What the output buffer holds after the call: "zero" (every sample 0) or
\* "pcm" (scaled core samples, not all 0).  On the Game Boy path the samples
\* are multiplied by env_scale, the mean block-start level of the voices
\* rendered (1.0 when none was).
render_out(c, prev, r) ==
    IF CoreAudible(c, prev, r.ws) /\ (c = CHIP_NES \/ r.cnt = 0 \/ r.lev)
    THEN "pcm" ELSE "zero"

(* ------------------------------------------------------------------ *)
(* Output buffer                                                        *)
(* ------------------------------------------------------------------ *)
\* The buffer the host hands to render_block: 2 * frames int16 positions
\* holding whatever was there before the call.
HostBuffer(frames) == << <<"stale", 2 * frames>> >>

\* The buffer without its first n positions.
RECURSIVE BufDrop(_, _)
BufDrop(buf, n) ==
    IF n <= 0 \/ buf = << >> THEN buf
    ELSE IF buf[1][2] <= n THEN BufDrop(Tail(buf), n - buf[1][2])
    ELSE << <<buf[1][1], buf[1][2] - n>> >> \o Tail(buf)

\* Positions 0 .. n-1 overwritten with `content`.
BufFill(buf, n, content) ==
    IF n <= 0 THEN buf
    ELSE IF buf # << >> /\ BufDrop(buf, n) # << >>
            /\ BufDrop(buf, n)[1][1] = content
    THEN << <<content, n + BufDrop(buf, n)[1][2]>> >> \o Tail(BufDrop(buf, n))
    ELSE << <<content, n>> >> \o BufDrop(buf, n)

\* A memset that clears frames * 2 bytes: the left half of the buffer.
memset_out_half(buf, frames) == BufFill(buf, (frames * 2) \div 2, "zero")

\* memset(out_interleaved_lr, 0, frames * 4): bytes, two per int16 position.
memset_out(buf, frames) == BufFill(buf, (frames * 4) \div 2, "zero")

\* The sample the copy loop stores: 6 * sample (Game Boy: times env_scale,
\* here num / den, truncated toward zero) clamped to the int16 range.
scale_sample(sample, num, den) ==
    Clamp(CDiv(sample * 6 * num, den), -32768, 32767)

\* The number of leading positions the copy loop overwrites.  NES:
\* to_read = min(avail, frames) mono samples, each written to two positions.
\* Game Boy: stereo_shorts = min(avail, 2 * frames) shorts are read, and
\* read_count / 2 pairs (at most frames) are written.
pcm_positions(c, frames, avail) ==
    IF c = CHIP_NES
    THEN 2 * Max2(Min2(avail, frames), 0)
    ELSE 2 * Min2(Max2(Min2(avail, frames * 2), 0) \div 2, frames)

\* The buffer after v2_render_block on a live instance.
render_buffer(c, buf, frames, avail) ==
    BufFill(memset_out(buf, frames), pcm_positions(c, frames, avail), "pcm")

(* ------------------------------------------------------------------ *)
(* State snapshot and restore                                           *)
(* ------------------------------------------------------------------ *)
\* (int)val of a float holding an integer.
ToInt(x) == CDiv(x, 1)

\* json_get_number(json, key, &fval) == 0
json_has(json, key) == key \in DOMAIN json

\* v2_get_param "state": {"preset":%d,"chip":%d,"<key>":%d,...}
get_param_state(c, preset, ps) ==
    [k \in {"preset", "chip"} \cup ParamKeys |->
        IF k = "preset" THEN preset
        ELSE IF k = "chip" THEN c
        ELSE ToInt(ps[k])]

\* A restore that takes the nearest valid index for a preset out of range.
state_preset_clamped(json) ==
    IF json_has(json, "preset")
    THEN Clamp(ToInt(json["preset"]), 0, NUM_PRESETS - 1) ELSE -1

\* The preset a state restore applies: its "preset" number when in range.
state_preset(json) ==
    IF json_has(json, "preset")
       /\ ToInt(json["preset"]) >= 0 /\ ToInt(json["preset"]) < NUM_PRESETS
    THEN ToInt(json["preset"]) ELSE -1

\* A restore that applies the preset after the saved parameters.
set_param_state_presetLast(inst, json) ==
    LET idx == state_preset(json)
    IN  [chip |-> IF idx >= 0 THEN PresetChip(idx)
                  ELSE IF json_has(json, "chip") THEN ToInt(json["chip"]) % 256
                  ELSE inst.chip,
         params |-> IF idx >= 0 THEN PresetParams(idx)
                    ELSE [k \in ParamKeys |->
                            IF json_has(json, k)
                            THEN Clamp(json[k], ParamMin[k], ParamMax[k])
                            ELSE inst.params[k]],
         current_preset |-> IF idx >= 0 THEN idx ELSE inst.current_preset]

\* v2_set_param "state" on inst = [chip, params, current_preset]: the preset
\* first, then "chip" cast to uint8_t, then every parameter present, clamped
\* to its declared range.
set_param_state(inst, json) ==
    LET idx == state_preset(json)
        base == IF idx >= 0
                THEN [chip |-> PresetChip(idx), params |-> PresetParams(idx),
                      current_preset |-> idx]
                ELSE inst
    IN  [chip |-> IF json_has(json, "chip") THEN ToInt(json["chip"]) % 256
                  ELSE base.chip,
         params |-> [k \in ParamKeys |->
                        IF json_has(json, k)
                        THEN Clamp(json[k], ParamMin[k], ParamMax[k])
                        ELSE base.params[k]],
         current_preset |-> base.current_preset]

(* ------------------------------------------------------------------ *)
(* Initial state: v2_create_instance                                    *)
(* ------------------------------------------------------------------ *)
CoreReset == [ch \in Channels |-> 0]

\* The sample buffer of a core after clear(): nothing to read, no clock
\* time carried over.  clocks counts in units of 1/clock_rate of a sample.
UnreadReset == [c \in {CHIP_NES, CHIP_GB} |-> [samples |-> 0, clocks |-> 0]]

Init ==
    /\ chip = PresetChip(0)
    /\ params = PresetParams(0)
    /\ current_preset = 0
    /\ voices = [i \in Slots |-> voice_init]
    /\ voice_age_counter = 0
    /\ lfo_phase = 0
    /\ pitch_bend_semitones = 0
    /\ writes = << >>
    /\ core = [c \in {CHIP_NES, CHIP_GB} |-> CoreReset]
    /\ out = "none"
    /\ buffer = HostBuffer(FRAMES_PER_BLOCK)
    /\ unread = UnreadReset

(* ------------------------------------------------------------------ *)
(* Operations                                                           *)
(* ------------------------------------------------------------------ *)
\* A note-on that sounds a voice whatever its velocity.
NoteOn_zeroSounds(data1, data2) ==
    /\ voices' = NoteOnVoices(voices, params, chip, voice_age_counter,
                              data1, data2)
    /\ voice_age_counter' = NoteOnCounter(voices, params, voice_age_counter,
                                          data1)
    /\ UNCHANGED <<chip, params, current_preset, lfo_phase,
                   pitch_bend_semitones, writes, core, out, buffer, unread>>

\* v2_on_midi, status 0x90.
NoteOn(data1, data2) ==
    /\ IF data2 = 0
       THEN /\ voices' = ReleaseNote(voices, TransposedNote(data1, params))
            /\ UNCHANGED voice_age_counter
       ELSE /\ voices' = NoteOnVoices(voices, params, chip, voice_age_counter,
                                      data1, data2)
            /\ voice_age_counter' = NoteOnCounter(voices, params,
                                                  voice_age_counter, data1)
    /\ UNCHANGED <<chip, params, current_preset, lfo_phase,
                   pitch_bend_semitones, writes, core, out, buffer, unread>>

\* v2_on_midi, status 0x80.
NoteOff(data1) ==
    /\ voices' = ReleaseNote(voices, TransposedNote(data1, params))
    /\ UNCHANGED <<chip, params, current_preset, voice_age_counter, lfo_phase,
                   pitch_bend_semitones, writes, core, out, buffer, unread>>

\* v2_on_midi, status 0xB0: the mod wheel sets the vibrato depth, controllers
\* 120 and 123 kill every voice.
ControlChange(data1, data2) ==
    /\ params' = IF data1 = 1
                 THEN [params EXCEPT !.vibrato_depth = (data2 * 12) \div 127]
                 ELSE params
    /\ voices' = IF data1 \in {120, 123} THEN kill_all_voices(voices) ELSE voices
    /\ UNCHANGED <<chip, current_preset, voice_age_counter, lfo_phase,
                   pitch_bend_semitones, writes, core, out, buffer, unread>>

\* v2_on_midi, status 0xE0: a 14-bit bend around 8192 is +/- 2 semitones.
PitchBend(data1, data2) ==
    /\ pitch_bend_semitones' = (((data2 * 128 + data1) - 8192) * (2 * 4096)) \div 8192
    /\ UNCHANGED <<chip, params, current_preset, voices, voice_age_counter,
                   lfo_phase, writes, core, out, buffer, unread>>

\* v2_set_param "preset": a valid index other than the current one kills the
\* voices, applies the preset and reinitialises both chip cores.
SetPreset(idx) ==
    /\ IF idx >= 0 /\ idx < NUM_PRESETS /\ idx # current_preset
       THEN /\ voices' = kill_all_voices(voices)
            /\ chip' = PresetChip(idx)
            /\ params' = PresetParams(idx)
            /\ current_preset' = idx
            /\ core' = [c \in {CHIP_NES, CHIP_GB} |-> CoreReset]
            /\ unread' = UnreadReset
       ELSE UNCHANGED <<voices, chip, params, current_preset, core, unread>>
    /\ UNCHANGED <<voice_age_counter, lfo_phase, pitch_bend_semitones,
                   writes, out, buffer>>

\* v2_set_param "state": a preset in range kills the voices; both chip
\* cores are reinitialised in every case.
RestoreState(json) ==
    LET r == set_param_state([chip |-> chip, params |-> params,
                              current_preset |-> current_preset], json)
    IN  /\ voices' = IF state_preset(json) >= 0 THEN kill_all_voices(voices)
                     ELSE voices
        /\ chip' = r.chip
        /\ params' = r.params
        /\ current_preset' = r.current_preset
        /\ core' = [c \in {CHIP_NES, CHIP_GB} |-> CoreReset]
        /\ unread' = UnreadReset
        /\ UNCHANGED <<voice_age_counter, lfo_phase, pitch_bend_semitones,
                       writes, out, buffer>>

\* v2_set_param "chip": val is "NES"/"0" or "GB"/"1" (c = 0 or 1); any other
\* value (c = -1) leaves the chip; the voices are killed in every case.
\* set_param("wavetable", idx): the index is clamped to the table and
\* stored; on the Game Boy the wave RAM is reloaded (wave RAM is not part of
\* the core state kept here).
SetWavetable(idx) ==
    /\ params' = [params EXCEPT !.wavetable = Clamp(idx, 0, NUM_WAVETABLES - 1)]
    /\ UNCHANGED <<chip, voices, current_preset, voice_age_counter, lfo_phase,
                   pitch_bend_semitones, writes, core, out, buffer, unread>>

SetChip(c) ==
    /\ chip' = IF c \in {CHIP_NES, CHIP_GB} THEN c ELSE chip
    /\ voices' = kill_all_voices(voices)
    /\ UNCHANGED <<params, current_preset, voice_age_counter, lfo_phase,
                   pitch_bend_semitones, writes, core, out, buffer, unread>>

\* v2_set_param "alloc_mode".
SetAllocMode(m) ==
    /\ params' = IF m \in {ALLOC_AUTO, ALLOC_LEAD, ALLOC_LOCKED}
                 THEN [params EXCEPT !.alloc_mode = m]
                 ELSE params
    /\ UNCHANGED <<chip, current_preset, voices, voice_age_counter, lfo_phase,
                   pitch_bend_semitones, writes, core, out, buffer, unread>>

\* v2_set_param "all_notes_off".
AllNotesOff ==
    /\ voices' = kill_all_voices(voices)
    /\ UNCHANGED <<chip, params, current_preset, voice_age_counter, lfo_phase,
                   pitch_bend_semitones, writes, core, out, buffer, unread>>

\* v2_render_block on a live instance; avail is what the core's
\* samples_avail returns after end_frame (NES: mono samples, Game Boy: shorts).
\* A render call that puts the pitch bend back to the centre.
RenderBlock_centreBend(frames, avail) ==
    LET r == render_writes(voices, chip, params, pitch_bend_semitones,
                           lfo_phase, frames)
    IN  /\ voices' = r.vs
        /\ writes' = r.ws
        /\ lfo_phase' = lfo_advance(lfo_phase, params.vibrato_rate, frames)
        /\ core' = [core EXCEPT ![chip] = CoreAfter(chip, core[chip], r.ws)]
        /\ out' = IF pcm_positions(chip, frames, avail) > 0
                  THEN render_out(chip, core[chip], r) ELSE "zero"
        /\ buffer' = render_buffer(chip, HostBuffer(frames), frames, avail)
        /\ pitch_bend_semitones' = 0
        /\ UNCHANGED <<chip, params, current_preset, voice_age_counter, unread>>

RenderBlock(frames, avail) ==
    LET r == render_writes(voices, chip, params, pitch_bend_semitones,
                           lfo_phase, frames)
    IN  /\ voices' = r.vs
        /\ writes' = r.ws
        /\ lfo_phase' = lfo_advance(lfo_phase, params.vibrato_rate, frames)
        /\ core' = [core EXCEPT ![chip] = CoreAfter(chip, core[chip], r.ws)]
        /\ out' = IF pcm_positions(chip, frames, avail) > 0
                  THEN render_out(chip, core[chip], r) ELSE "zero"
        /\ buffer' = render_buffer(chip, HostBuffer(frames), frames, avail)
        /\ UNCHANGED <<chip, params, current_preset, voice_age_counter,
                       pitch_bend_semitones, unread>>

\* A block for which the core delivers every sample asked for: the cycle
\* budget of a block is at least FRAMES_PER_BLOCK samples' worth of chip
\* clock.  The sample buffer is not followed here (see RenderDrain).
Render(frames) == RenderBlock(frames, 2 * frames)

\* The clock rate a core's sample buffer is set to, and the cycles every
\* render call runs the core for.
clock_rate(c) == IF c = CHIP_NES THEN NES_CPU_CLOCK ELSE GB_CPU_CLOCK
cycles_per_block(c) == IF c = CHIP_NES THEN NES_CYCLES_PER_BLOCK
                       ELSE GB_CYCLES_PER_BLOCK

\* end_frame(cycles) on a sample buffer set to clock_rate(c) and SAMPLE_RATE:
\* cycles clocks are cycles * SAMPLE_RATE / clock_rate samples; whole
\* samples become readable, the rest of the clock time is carried over.
end_frame(u, c, cycles) ==
    LET t == u.clocks + cycles * SAMPLE_RATE
    IN  [samples |-> u.samples + t \div clock_rate(c),
         clocks |-> t % clock_rate(c)]

\* samples_avail: mono samples on the NES, shorts (two per stereo sample) on
\* the Game Boy.
samples_avail(u, c) == IF c = CHIP_NES THEN u.samples ELSE 2 * u.samples

\* read_samples as v2_render_block calls it: the samples behind the
\* positions the copy loop fills leave the buffer.
read_samples(u, c, frames) ==
    [u EXCEPT !.samples = @ - pcm_positions(c, frames, samples_avail(u, c)) \div 2]

\* v2_render_block with the sample buffer followed: the core runs for the
\* cycle budget of a block, then at most frames samples are read.
RenderDrain(frames) ==
    LET r == render_writes(voices, chip, params, pitch_bend_semitones,
                           lfo_phase, frames)
        u == end_frame(unread[chip], chip, cycles_per_block(chip))
        avail == samples_avail(u, chip)
    IN  /\ voices' = r.vs
        /\ writes' = r.ws
        /\ lfo_phase' = lfo_advance(lfo_phase, params.vibrato_rate, frames)
        /\ core' = [core EXCEPT ![chip] = CoreAfter(chip, core[chip], r.ws)]
        /\ out' = IF pcm_positions(chip, frames, avail) > 0
                  THEN render_out(chip, core[chip], r) ELSE "zero"
        /\ buffer' = render_buffer(chip, HostBuffer(frames), frames, avail)
        /\ unread' = [unread EXCEPT ![chip] = read_samples(u, chip, frames)]
        /\ UNCHANGED <<chip, params, current_preset, voice_age_counter,
                       pitch_bend_semitones>>

\* v2_render_block with a null instance.
RenderNull(frames) ==
    /\ buffer' = memset_out(HostBuffer(frames), frames)
    /\ UNCHANGED <<chip, params, current_preset, voices, voice_age_counter,
                   lfo_phase, pitch_bend_semitones, writes, core, out, unread>>

(* ------------------------------------------------------------------ *)
(* A session: every operation, from a new instance                      *)
(* ------------------------------------------------------------------ *)
Next ==
    \/ \E n \in Notes, v \in Velocities :
          (v = 0 \/ voice_age_counter < MaxSessionAge) /\ NoteOn(n, v)
    \/ \E n \in Notes : NoteOff(n)
    \/ \E cc \in Controllers : ControlChange(cc[1], cc[2])
    \/ \E idx \in SessionPresets : SetPreset(idx)
    \/ \E c \in {CHIP_NES, CHIP_GB} : SetChip(c)
    \/ \E m \in {ALLOC_AUTO, ALLOC_LEAD, ALLOC_LOCKED} : SetAllocMode(m)
    \/ AllNotesOff
    \/ Render(FRAMES_PER_BLOCK)

Spec == Init /\ [][Next]_vars

(* ------------------------------------------------------------------ *)
(* Editing: presets, restored states and modes set while notes play     *)
(* ------------------------------------------------------------------ *)
NextEdit ==
    \/ \E n \in EditKeys :
          voice_age_counter < MaxSessionAge /\ NoteOn(n, 100)
    \/ \E n \in EditKeys : NoteOff(n)
    \/ \E idx \in EditPresets : SetPreset(idx)
    \/ \E json \in SessionStates : RestoreState(json)
    \/ \E c \in {CHIP_NES, CHIP_GB} : SetChip(c)
    \/ \E m \in {ALLOC_AUTO, ALLOC_LEAD, ALLOC_LOCKED} : SetAllocMode(m)
    \/ Render(FRAMES_PER_BLOCK)

SpecEdit == Init /\ [][NextEdit]_vars

(* ------------------------------------------------------------------ *)
(* Keys: every key under every octave transpose                         *)
(* ------------------------------------------------------------------ *)
\* A new instance (NES Lead) with octave_transpose stored.
InitKeys ==
    /\ \E oct \in ParamMin.octave_transpose .. ParamMax.octave_transpose :
          params = [PresetParams(0) EXCEPT !.octave_transpose = oct]
    /\ chip = PresetChip(0)
    /\ current_preset = 0
    /\ voices = [i \in Slots |-> voice_init]
    /\ voice_age_counter = 0
    /\ lfo_phase = 0
    /\ pitch_bend_semitones = 0
    /\ writes = << >>
    /\ core = [c \in {CHIP_NES, CHIP_GB} |-> CoreReset]
    /\ out = "none"
    /\ buffer = HostBuffer(FRAMES_PER_BLOCK)
    /\ unread = UnreadReset

NextKeys ==
    \/ \E n \in AllKeys :
          voice_age_counter < MaxSessionAge /\ NoteOn(n, 100)
    \/ \E n \in AllKeys : NoteOff(n)

SpecKeys == InitKeys /\ [][NextKeys]_vars

(* ------------------------------------------------------------------ *)
(* Pitch: notes, bends and blocks under every pitch modulation          *)
(* ------------------------------------------------------------------ *)
\* An Auto-mode instance (NES Poly or GB Poly) after set_param has stored the
\* modulation parameters and a channel mask, at some point of the LFO cycle.
InitPitch ==
    /\ \E p \in {6, 19}, md \in PitchMods, mask \in {3, 4} :
          /\ chip = PresetChip(p)
          /\ params = [PresetParams(p) EXCEPT
                          !.vibrato_depth = md[1], !.vibrato_rate = md[2],
                          !.detune = md[3], !.pitch_env_depth = md[4],
                          !.pitch_env_speed = md[5], !.channel_mask = mask]
          /\ current_preset = p
    /\ voices = [i \in Slots |-> voice_init]
    /\ voice_age_counter = 0
    /\ lfo_phase \in {11025, 33075}
    /\ pitch_bend_semitones = 0
    /\ writes = << >>
    /\ core = [c \in {CHIP_NES, CHIP_GB} |-> CoreReset]
    /\ out = "none"
    /\ buffer = HostBuffer(FRAMES_PER_BLOCK)
    /\ unread = UnreadReset

NextPitch ==
    \/ \E n \in PitchKeys :
          voice_age_counter < MaxSessionAge /\ NoteOn(n, 100)
    \/ \E n \in PitchKeys : NoteOff(n)
    \/ \E b \in Bends : PitchBend(b[1], b[2])
    \/ lfo_phase \in LfoPhases /\ Render(FRAMES_PER_BLOCK)

SpecPitch == InitPitch /\ [][NextPitch]_vars

(* ------------------------------------------------------------------ *)
(* Auto: polyphonic playing under every channel mask                    *)
(* ------------------------------------------------------------------ *)
\* NES Poly (Auto mode) after set_param has stored a channel mask and an
\* immediate release.
InitAuto ==
    /\ \E mask \in AutoMasks :
          params = [PresetParams(6) EXCEPT !.channel_mask = mask,
                                           !.env_release = 0]
    /\ chip = PresetChip(6)
    /\ current_preset = 6
    /\ voices = [i \in Slots |-> voice_init]
    /\ voice_age_counter = 0
    /\ lfo_phase = 0
    /\ pitch_bend_semitones = 0
    /\ writes = << >>
    /\ core = [c \in {CHIP_NES, CHIP_GB} |-> CoreReset]
    /\ out = "none"
    /\ buffer = HostBuffer(FRAMES_PER_BLOCK)
    /\ unread = UnreadReset

NextAuto ==
    \/ \E n \in AutoKeys : voice_age_counter < MaxAutoAge /\ NoteOn(n, 100)
    \/ \E n \in AutoKeys : NoteOff(n)
    \/ Render(FRAMES_PER_BLOCK)

SpecAuto == InitAuto /\ [][NextAuto]_vars

(* ------------------------------------------------------------------ *)
(* Envelope: one generator followed sample by sample                    *)
(* ------------------------------------------------------------------ *)
\* env_process(&voices[0].env): one sample of the envelope of slot 0.
EnvSample ==
    /\ voices' = [voices EXCEPT ![0].env = env_process(@)]
    /\ UNCHANGED <<chip, params, current_preset, voice_age_counter, lfo_phase,
                   pitch_bend_semitones, writes, core, out, buffer, unread>>

\* env_gate_off(&voices[0].env).
EnvGateOff ==
    /\ voices' = [voices EXCEPT ![0].env = env_gate_off(@)]
    /\ UNCHANGED <<chip, params, current_preset, voice_age_counter, lfo_phase,
                   pitch_bend_semitones, writes, core, out, buffer, unread>>

\* NES Lead with an envelope setting stored, right after its first note-on:
\* slot 0 holds the voice, its envelope configured and gated on.
InitEnv ==
    /\ \E cfg \in EnvConfigs :
          params = [PresetParams(0) EXCEPT
                       !.env_attack = cfg[1], !.env_decay = cfg[2],
                       !.env_sustain = cfg[3], !.env_release = cfg[4]]
    /\ chip = PresetChip(0)
    /\ current_preset = 0
    /\ voices = NoteOnVoices([i \in Slots |-> voice_init], params, chip, 0, 60, 100)
    /\ voice_age_counter = 1
    /\ lfo_phase = 0
    /\ pitch_bend_semitones = 0
    /\ writes = << >>
    /\ core = [c \in {CHIP_NES, CHIP_GB} |-> CoreReset]
    /\ out = "none"
    /\ buffer = HostBuffer(FRAMES_PER_BLOCK)
    /\ unread = UnreadReset

NextEnv ==
    \/ EnvSample
    \/ EnvGateOff

SpecEnv == InitEnv /\ [][NextEnv]_vars

(* ------------------------------------------------------------------ *)
(* LFO: blocks rendered through whole vibrato cycles                    *)
(* ------------------------------------------------------------------ *)
\* NES Poly or GB Poly after set_param has stored a vibrato setting.
InitLfo ==
    /\ \E p \in {6, 19}, md \in LfoMods :
          /\ chip = PresetChip(p)
          /\ params = [PresetParams(p) EXCEPT
                          !.vibrato_depth = md[1], !.vibrato_rate = md[2]]
          /\ current_preset = p
    /\ voices = [i \in Slots |-> voice_init]
    /\ voice_age_counter = 0
    /\ lfo_phase = 0
    /\ pitch_bend_semitones = 0
    /\ writes = << >>
    /\ core = [c \in {CHIP_NES, CHIP_GB} |-> CoreReset]
    /\ out = "none"
    /\ buffer = HostBuffer(FRAMES_PER_BLOCK)
    /\ unread = UnreadReset

NextLfo ==
    \/ voice_age_counter < MaxSessionAge /\ NoteOn(60, 100)
    \/ NoteOff(60)
    \/ Render(FRAMES_PER_BLOCK)

SpecLfo == InitLfo /\ [][NextLfo]_vars

(* ------------------------------------------------------------------ *)
(* Pitch envelope: a note rendered block after block                    *)
(* ------------------------------------------------------------------ *)
\* NES Poly or GB Poly after set_param has stored a pitch-envelope setting.
InitPenv ==
    /\ \E p \in {6, 19}, md \in PenvMods :
          /\ chip = PresetChip(p)
          /\ params = [PresetParams(p) EXCEPT
                          !.pitch_env_depth = md[1], !.pitch_env_speed = md[2]]
          /\ current_preset = p
    /\ voices = [i \in Slots |-> voice_init]
    /\ voice_age_counter = 0
    /\ lfo_phase = 0
    /\ pitch_bend_semitones = 0
    /\ writes = << >>
    /\ core = [c \in {CHIP_NES, CHIP_GB} |-> CoreReset]
    /\ out = "none"
    /\ buffer = HostBuffer(FRAMES_PER_BLOCK)
    /\ unread = UnreadReset

NextPenv ==
    \/ voice_age_counter < MaxSessionAge /\ NoteOn(60, 100)
    \/ NoteOff(60)
    \/ Render(FRAMES_PER_BLOCK)

SpecPenv == InitPenv /\ [][NextPenv]_vars

(* ------------------------------------------------------------------ *)
(* Clamping: states, wavetables and mod-wheel values out of range       *)
(* ------------------------------------------------------------------ *)
InitClamp ==
    /\ \E p \in {0, 19} :
          /\ chip = PresetChip(p)
          /\ params = PresetParams(p)
          /\ current_preset = p
    /\ voices = [i \in Slots |-> voice_init]
    /\ voice_age_counter = 0
    /\ lfo_phase = 0
    /\ pitch_bend_semitones = 0
    /\ writes = << >>
    /\ core = [c \in {CHIP_NES, CHIP_GB} |-> CoreReset]
    /\ out = "none"
    /\ buffer = HostBuffer(FRAMES_PER_BLOCK)
    /\ unread = UnreadReset

NextClamp ==
    \/ \E json \in ClampStates : RestoreState(json)
    \/ \E idx \in WavetableIdxs : SetWavetable(idx)
    \/ \E v \in ModWheels : ControlChange(1, v)
    \/ \E c \in {CHIP_NES, CHIP_GB} : SetChip(c)

SpecClamp == InitClamp /\ [][NextClamp]_vars

(* ------------------------------------------------------------------ *)
(* Noise: every key played on the noise channel                         *)
(* ------------------------------------------------------------------ *)
\* NES Hat or GB Poly with the mask set to the noise channel alone, Lead
\* mode, either noise mode, and an envelope that holds full level.
InitNoise ==
    /\ \E p \in {13, 19}, nm \in {0, 1} :
          /\ chip = PresetChip(p)
          /\ params = [PresetParams(p) EXCEPT
                          !.channel_mask = 8, !.alloc_mode = ALLOC_LEAD,
                          !.noise_mode = nm, !.env_attack = 0,
                          !.env_decay = 0, !.env_sustain = 15]
          /\ current_preset = p
    /\ voices = [i \in Slots |-> voice_init]
    /\ voice_age_counter = 0
    /\ lfo_phase = 0
    /\ pitch_bend_semitones = 0
    /\ writes = << >>
    /\ core = [c \in {CHIP_NES, CHIP_GB} |-> CoreReset]
    /\ out = "none"
    /\ buffer = HostBuffer(FRAMES_PER_BLOCK)
    /\ unread = UnreadReset

NextNoise ==
    \/ voice_age_counter < MaxSessionAge /\ \E n \in NoiseKeys : NoteOn(n, 100)
    \/ \E n \in NoiseKeys : NoteOff(n)
    \/ Render(FRAMES_PER_BLOCK)

SpecNoise == InitNoise /\ [][NextNoise]_vars

(* ------------------------------------------------------------------ *)
(* Octave: the transpose changed while a key is held                    *)
(* ------------------------------------------------------------------ *)
\* NES Poly; key 60 is the only key played.
InitOctave ==
    /\ chip = PresetChip(6)
    /\ params = PresetParams(6)
    /\ current_preset = 6
    /\ voices = [i \in Slots |-> voice_init]
    /\ voice_age_counter = 0
    /\ lfo_phase = 0
    /\ pitch_bend_semitones = 0
    /\ writes = << >>
    /\ core = [c \in {CHIP_NES, CHIP_GB} |-> CoreReset]
    /\ out = "none"
    /\ buffer = HostBuffer(FRAMES_PER_BLOCK)
    /\ unread = UnreadReset

NextOctave ==
    \/ voice_age_counter < MaxSessionAge /\ NoteOn(60, 100)
    \/ NoteOff(60)
    \/ \E json \in OctaveStates : RestoreState(json)
    \/ \E m \in {ALLOC_AUTO, ALLOC_LOCKED} : SetAllocMode(m)
    \/ Render(FRAMES_PER_BLOCK)

SpecOctave == InitOctave /\ [][NextOctave]_vars

(* ------------------------------------------------------------------ *)
(* Decay: an attack-decay note left to the renderer                      *)
(* ------------------------------------------------------------------ *)
\* Sustain 0 stored just before the note-on for key 60; no event follows.
\* NES Poly with every attack value beside the shortest and the longest
\* decay and every decay value beside the shortest and the longest attack
\* (the decay starts from level 1 whatever the attack was); GB Poly with the
\* extreme pairs.
InitDecay ==
    /\ \E p \in {6, 19}, a \in 0 .. 15, d \in 0 .. 15 :
          /\ a \in {0, 15} \/ d \in {0, 15}
          /\ p = 6 \/ (a \in {0, 15} /\ d \in {0, 15})
          /\ chip = PresetChip(p)
          /\ params = [PresetParams(p) EXCEPT
                          !.env_attack = a, !.env_decay = d, !.env_sustain = 0]
          /\ current_preset = p
    /\ voices = NoteOnVoices([i \in Slots |-> voice_init], params, chip, 0, 60, 100)
    /\ voice_age_counter = 1
    /\ lfo_phase = 0
    /\ pitch_bend_semitones = 0
    /\ writes = << >>
    /\ core = [c \in {CHIP_NES, CHIP_GB} |-> CoreReset]
    /\ out = "none"
    /\ buffer = HostBuffer(FRAMES_PER_BLOCK)
    /\ unread = UnreadReset

NextDecay == Render(FRAMES_PER_BLOCK)

\* The host calls render_block for every audio block: weak fairness of the
\* render call, with its enabling condition written out.  A render call
\* moves the envelope of every active voice in Attack or Decay (both rates
\* are positive), so <<Render(128)>>_vars is enabled whenever EnvMoving
\* holds, and WF_vars(Render(128)) implies RenderFair.
EnvMoving ==
    \E i \in Slots :
       voices[i].active /\ voices[i].env.stage \in {ENV_ATTACK, ENV_DECAY}

RenderFair ==
    <>[]EnvMoving => []<><<Render(FRAMES_PER_BLOCK)>>_vars

SpecDecay == InitDecay /\ [][NextDecay]_vars /\ RenderFair

(* ------------------------------------------------------------------ *)
(* Mask: the channel mask and the mode changed while notes play         *)
(* ------------------------------------------------------------------ *)
\* NES Unison (detune 8, so note-ons double) on a new instance.
InitMask ==
    /\ chip = PresetChip(8)
    /\ params = PresetParams(8)
    /\ current_preset = 8
    /\ voices = [i \in Slots |-> voice_init]
    /\ voice_age_counter = 0
    /\ lfo_phase = 0
    /\ pitch_bend_semitones = 0
    /\ writes = << >>
    /\ core = [c \in {CHIP_NES, CHIP_GB} |-> CoreReset]
    /\ out = "none"
    /\ buffer = HostBuffer(FRAMES_PER_BLOCK)
    /\ unread = UnreadReset

NextMask ==
    \/ voice_age_counter < MaxAutoAge /\ \E n \in AutoKeys : NoteOn(n, 100)
    \/ \E n \in AutoKeys : NoteOff(n)
    \/ \E json \in MaskStates : RestoreState(json)
    \/ \E m \in {ALLOC_AUTO, ALLOC_LEAD, ALLOC_LOCKED} : SetAllocMode(m)

SpecMask == InitMask /\ [][NextMask]_vars

(* ------------------------------------------------------------------ *)
(* Kill: everything that stops all voices                               *)
(* ------------------------------------------------------------------ *)
\* NES Unison on a new instance.
InitKill ==
    /\ chip = PresetChip(8)
    /\ params = PresetParams(8)
    /\ current_preset = 8
    /\ voices = [i \in Slots |-> voice_init]
    /\ voice_age_counter = 0
    /\ lfo_phase = 0
    /\ pitch_bend_semitones = 0
    /\ writes = << >>
    /\ core = [c \in {CHIP_NES, CHIP_GB} |-> CoreReset]
    /\ out = "none"
    /\ buffer = HostBuffer(FRAMES_PER_BLOCK)
    /\ unread = UnreadReset

NextKill ==
    \/ voice_age_counter < MaxSessionAge /\ NoteOn(60, 100)
    \/ NoteOff(60)
    \/ \E cc \in KillControllers : ControlChange(cc, 0)
    \/ AllNotesOff
    \/ \E c \in KillChips : SetChip(c)
    \/ \E idx \in KillPresets : SetPreset(idx)
    \/ Render(FRAMES_PER_BLOCK)

SpecKill == InitKill /\ [][NextKill]_vars

(* ------------------------------------------------------------------ *)
(* Frame: short notes with a pitch envelope under a pitch bend          *)
(* ------------------------------------------------------------------ *)
\* NES Stab or GB Pluck with Auto mode, both pulse channels, attack 1 with
\* an instant decay (the note ends in its sixth block) and the deepest,
\* fastest pitch envelope stored.
InitFrame ==
    /\ \E p \in {5, 23} :
          /\ chip = PresetChip(p)
          /\ params = [PresetParams(p) EXCEPT
                          !.alloc_mode = ALLOC_AUTO, !.channel_mask = 3,
                          !.env_attack = 1, !.env_decay = 0,
                          !.pitch_env_depth = 24,
                          !.pitch_env_speed = 1]
          /\ current_preset = p
    /\ voices = [i \in Slots |-> voice_init]
    /\ voice_age_counter = 0
    /\ lfo_phase = 0
    /\ pitch_bend_semitones = 0
    /\ writes = << >>
    /\ core = [c \in {CHIP_NES, CHIP_GB} |-> CoreReset]
    /\ out = "none"
    /\ buffer = HostBuffer(FRAMES_PER_BLOCK)
    /\ unread = UnreadReset

NextFrame ==
    \/ voice_age_counter < MaxSessionAge /\ NoteOn(60, 100)
    \/ NoteOff(60)
    \/ \E b \in Bends : PitchBend(b[1], b[2])
    \/ Render(FRAMES_PER_BLOCK)

SpecFrame == InitFrame /\ [][NextFrame]_vars

(* ------------------------------------------------------------------ *)
(* Samples: consecutive render calls and the cores' sample buffers      *)
(* ------------------------------------------------------------------ *)
\* The backlog of unread samples the render calls are followed up to.
MaxUnread == 2

\* NES Poly or GB Poly just selected, no note played.
InitSamples ==
    /\ \E p \in {6, 19} :
          /\ params = PresetParams(p)
          /\ chip = PresetChip(p)
          /\ current_preset = p
    /\ voices = [i \in Slots |-> voice_init]
    /\ voice_age_counter = 0
    /\ lfo_phase = 0
    /\ pitch_bend_semitones = 0
    /\ writes = << >>
    /\ core = [c \in {CHIP_NES, CHIP_GB} |-> CoreReset]
    /\ out = "none"
    /\ buffer = HostBuffer(FRAMES_PER_BLOCK)
    /\ unread = UnreadReset

\* One render call after another, nothing in between.
NextSamples ==
    unread[chip].samples < MaxUnread /\ RenderDrain(FRAMES_PER_BLOCK)

SpecSamples == InitSamples /\ [][NextSamples]_vars

(* ------------------------------------------------------------------ *)
(* Lead: the mode switched while notes play, under every channel mask   *)
(* ------------------------------------------------------------------ *)
\* NES Unison after set_param has stored a channel mask.
InitLead ==
    /\ \E mask \in AutoMasks :
          params = [PresetParams(8) EXCEPT !.channel_mask = mask]
    /\ chip = PresetChip(8)
    /\ current_preset = 8
    /\ voices = [i \in Slots |-> voice_init]
    /\ voice_age_counter = 0
    /\ lfo_phase = 0
    /\ pitch_bend_semitones = 0
    /\ writes = << >>
    /\ core = [c \in {CHIP_NES, CHIP_GB} |-> CoreReset]
    /\ out = "none"
    /\ buffer = HostBuffer(FRAMES_PER_BLOCK)
    /\ unread = UnreadReset

NextLead ==
    \/ \E n \in AutoKeys : voice_age_counter < MaxAutoAge /\ NoteOn(n, 100)
    \/ \E n \in AutoKeys : NoteOff(n)
    \/ \E m \in {ALLOC_AUTO, ALLOC_LEAD, ALLOC_LOCKED} : SetAllocMode(m)

SpecLead == InitLead /\ [][NextLead]_vars

(* ------------------------------------------------------------------ *)
(* Unison: note-ons with and without detune, Auto and Lead              *)
(* ------------------------------------------------------------------ *)
\* NES Poly (detune 0) or NES Unison (detune 8) after set_param has stored a
\* channel mask.
InitUnison ==
    /\ \E p \in {6, 8}, mask \in UnisonMasks :
          /\ params = [PresetParams(p) EXCEPT !.channel_mask = mask]
          /\ chip = PresetChip(p)
          /\ current_preset = p
    /\ voices = [i \in Slots |-> voice_init]
    /\ voice_age_counter = 0
    /\ lfo_phase = 0
    /\ pitch_bend_semitones = 0
    /\ writes = << >>
    /\ core = [c \in {CHIP_NES, CHIP_GB} |-> CoreReset]
    /\ out = "none"
    /\ buffer = HostBuffer(FRAMES_PER_BLOCK)
    /\ unread = UnreadReset

NextUnison ==
    \/ \E n \in AutoKeys : voice_age_counter < MaxAge /\ NoteOn(n, 100)
    \/ \E n \in AutoKeys : NoteOff(n)
    \/ \E m \in {ALLOC_AUTO, ALLOC_LEAD} : SetAllocMode(m)

SpecUnison == InitUnison /\ [][NextUnison]_vars

(* ------------------------------------------------------------------ *)
(* Blocks: render calls of any size, with and without an instance       *)
(* ------------------------------------------------------------------ *)
NextBlock ==
    \/ voice_age_counter < MaxSessionAge /\ NoteOn(60, 100)
    \/ NoteOff(60)
    \/ \E c \in {CHIP_NES, CHIP_GB} : SetChip(c)
    \/ \E f \in BlockFrames, a \in Avails : RenderBlock(f, a)
    \/ \E f \in BlockFrames : RenderNull(f)

SpecBlock == Init /\ [][NextBlock]_vars

(* ------------------------------------------------------------------ *)
(* Playing: notes and blocks with the parameters left alone             *)
(* ------------------------------------------------------------------ *)
\* The instance after set_param has stored a configuration (a saved state:
\* its preset, then the parameters saved with it), before the first note.
InitPlay ==
    /\ \E cfg \in PlayConfigs :
          /\ chip = PresetChip(cfg.preset)
          /\ params = [PresetParams(cfg.preset) EXCEPT
                          !.alloc_mode = cfg.alloc_mode,
                          !.octave_transpose = cfg.octave_transpose,
                          !.channel_mask = cfg.channel_mask]
          /\ current_preset = cfg.preset
    /\ voices = [i \in Slots |-> voice_init]
    /\ voice_age_counter = 0
    /\ lfo_phase = 0
    /\ pitch_bend_semitones = 0
    /\ writes = << >>
    /\ core = [c \in {CHIP_NES, CHIP_GB} |-> CoreReset]
    /\ out = "none"
    /\ buffer = HostBuffer(FRAMES_PER_BLOCK)
    /\ unread = UnreadReset

NextPlay ==
    \/ \E n \in Notes : voice_age_counter < MaxAge /\ NoteOn(n, 100)
    \/ \E n \in Notes : NoteOff(n)
    \/ Render(FRAMES_PER_BLOCK)

SpecPlay == InitPlay /\ [][NextPlay]_vars

(* ------------------------------------------------------------------ *)
(* Properties: voice allocation                                         *)
(* ------------------------------------------------------------------ *)
ActiveSlots(vs) == {i \in Slots : vs[i].active}

EnabledChannels(mask) == {ch \in Channels : HasBit(mask, ch)}

\* A step that allocated a voice: only a note-on with velocity > 0 moves
\* the age counter.
Allocates == voice_age_counter' > voice_age_counter

\* The slot the note-on gave its (first) voice.
NewSlot == CHOOSE i \in Slots : voices'[i].age = voice_age_counter + 1

C2_LockedAtMostN ==
    params.alloc_mode = ALLOC_LOCKED =>
        Cardinality(ActiveSlots(voices))
            <= Cardinality(EnabledChannels(params.channel_mask))

\* C3, as stated: with detune = 0, in Locked and Auto modes no two active
\* voices have the same channel_idx.
C3_OneVoicePerChannel ==
    (params.detune = 0 /\ params.alloc_mode \in {ALLOC_LOCKED, ALLOC_AUTO}) =>
        \A i, j \in ActiveSlots(voices) :
            i # j => voices[i].channel_idx # voices[j].channel_idx

\* S holds v, and no voice of S is older than v.
IsOldestIn(vs, S, v) == v \in S /\ \A w \in S : vs[v].age <= vs[w].age

C5_NoteOffReleasesMatching ==
    [][\A n \in Notes : NoteOff(n) =>
        LET tn == Clamp(n + 12 * params.octave_transpose, 0, 127)
            hit == {i \in Slots : voices[i].active /\ voices[i].note = tn}
        IN  /\ \A i \in hit :
                  /\ ~voices'[i].active
                  /\ voices'[i].env.stage = ENV_RELEASE
                  /\ voices'[i] = [voices[i] EXCEPT !.active = FALSE,
                                                    !.env.stage = ENV_RELEASE]
            /\ \A i \in Slots \ hit : voices'[i] = voices[i]
            /\ hit = {} => voices' = voices]_vars

\* A unison pair released together while another voice plays on.
C5_Witness ==
    \E i, j, k \in Slots :
        /\ ~voices[i].active /\ ~voices[j].active /\ voices[k].active
        /\ voices[i].env.stage = ENV_RELEASE /\ voices[j].env.stage = ENV_RELEASE
        /\ voices[i].env.level > 0
        /\ voices[i].note = voices[j].note /\ voices[k].note # voices[i].note
        /\ voices[j].age = voices[i].age + 1

C6_Setting ==
    /\ params.detune > 0
    /\ params.channel_mask % 4 = 3
    /\ params.alloc_mode = ALLOC_AUTO

\* The voices of S are two, on channels 0 and 1, with one note and velocity
\* and ages that differ by 1.
C6_Pair(vs, S) ==
    \E i, j \in S :
        /\ S = {i, j}
        /\ vs[i].channel_idx = 0 /\ vs[j].channel_idx = 1
        /\ vs[i].note = vs[j].note /\ vs[i].velocity = vs[j].velocity
        /\ vs[j].age = vs[i].age + 1

\* A note-off for the note of the pair that is all that is active leaves no
\* active voice.
C6_PairReleased ==
    \A n \in Notes :
        ( /\ C6_Setting
          /\ C6_Pair(voices, ActiveSlots(voices))
          /\ \A i \in ActiveSlots(voices) :
                voices[i].note = Clamp(n + 12 * params.octave_transpose, 0, 127)
          /\ NoteOff(n) )
        => ActiveSlots(voices') = {}

\* C6, as stated: with detune > 0, both pulse channels enabled, Auto mode and
\* no active voice, a note-on allocates exactly two voices, on channels 0
\* and 1, same note and velocity, ages 1 apart; a note-off for the note then
\* leaves none active.
C6_UnisonPairAlways ==
    [][ /\ (C6_Setting /\ ActiveSlots(voices) = {} /\ Allocates)
            => C6_Pair(voices', ActiveSlots(voices'))
        /\ C6_PairReleased ]_vars

\* C6, amended: the same, unless the mask also enables the noise channel and
\* the note is above 96: the note-on then allocates one voice, on channel 3.
C6_UnisonPair ==
    [][ /\ (C6_Setting /\ ActiveSlots(voices) = {} /\ Allocates) =>
            IF voices'[NewSlot].note > 96 /\ HasBit(params.channel_mask, 3)
            THEN /\ ActiveSlots(voices') = {NewSlot}
                 /\ voices'[NewSlot].channel_idx = 3
                 /\ voice_age_counter' = voice_age_counter + 1
            ELSE /\ C6_Pair(voices', ActiveSlots(voices'))
                 /\ voice_age_counter' = voice_age_counter + 2
        /\ C6_PairReleased ]_vars

\* The first note-on of an Auto unison instance has allocated its pair.
C6_Witness ==
    /\ C6_Setting
    /\ voice_age_counter = 2
    /\ C6_Pair(voices, ActiveSlots(voices))

(* ------------------------------------------------------------------ *)
(* Properties: rendering                                                *)
(* ------------------------------------------------------------------ *)
\* The writes of channel ch that only a triggering block sends.  NES: the
\* length-counter / period-high load $4003, $4007, $400B, $400F.  Game Boy:
\* NRx4 with bit 7 set, the duty/length register, the sweep register and the
\* wave channel's DAC enable.
TriggerOnly(c, ch, w) ==
    IF c = CHIP_NES THEN w.addr = NesReg(4 * ch + 3)
    ELSE CASE ch = 0 -> \/ w.addr = GbReg(20) /\ w.val >= 128
                        \/ w.addr \in {GbReg(16), GbReg(17)}
           [] ch = 1 -> \/ w.addr = GbReg(25) /\ w.val >= 128
                        \/ w.addr = GbReg(22)
           [] ch = 2 -> \/ w.addr = GbReg(30) /\ w.val >= 128
                        \/ w.addr = GbReg(26)
           [] OTHER  -> \/ w.addr = GbReg(35) /\ w.val >= 128
                        \/ w.addr = GbReg(32)

HasTriggerWrite(c, ch, ws) == \E k \in DOMAIN ws : TriggerOnly(c, ch, ws[k])

\* No other active voice of vs is on the channel of voice i.
AloneOnChannel(vs, i) ==
    \A j \in ActiveSlots(vs) \ {i} : vs[j].channel_idx # vs[i].channel_idx

\* C7: a note-on leaves its voice with triggered = false, and only a render
\* call changes the flag of a voice; a render call in which the voice stays
\* active sets the flag, and sends the trigger-only writes of the voice's
\* channel if and only if the flag was not set before: in the first such
\* block and in no later one.
C7_TriggerOnce ==
    [][ /\ Allocates =>
              \A i \in Slots : voices'[i].age > voice_age_counter
                                  => ~voices'[i].triggered
        /\ (\A i \in Slots :
                (voices[i].active /\ voices'[i].age = voices[i].age)
                    => voices'[i].triggered = voices[i].triggered)
           \/ Render(FRAMES_PER_BLOCK)
        /\ (\A i \in ActiveSlots(voices) \cap ActiveSlots(voices') :
                /\ voices'[i].triggered
                /\ AloneOnChannel(voices, i) =>
                      (HasTriggerWrite(chip, voices[i].channel_idx, writes')
                          <=> ~voices[i].triggered))
           \/ ~Render(FRAMES_PER_BLOCK) ]_vars

\* A later block of a note: the voice is triggered and the block that was
\* just rendered sent writes, none of them trigger-only for its channel.
C7_Witness ==
    \E i \in ActiveSlots(voices) :
        /\ voices[i].triggered
        /\ AloneOnChannel(voices, i)
        /\ \E k \in DOMAIN writes :
              writes[k].addr \in {NesReg(4 * voices[i].channel_idx + 2),
                                  GbReg(19), GbReg(24), GbReg(29), GbReg(34)}
        /\ ~HasTriggerWrite(chip, voices[i].channel_idx, writes)

\* C8, as stated: every envelope level is in [0,1], and the stage is Idle
\* if and only if the level is 0 and the voice is inactive.
C8_LevelRangeAndIdle ==
    \A i \in Slots :
        /\ voices[i].env.level >= 0 /\ voices[i].env.level <= LevelOne
        /\ voices[i].env.stage = ENV_IDLE
              <=> (voices[i].env.level = 0 /\ ~voices[i].active)

\* A write that silences channel ch.  NES: volume 0 in $4000/$4004/$400C,
\* a linear counter of 0 in $4008.  Game Boy: volume 0 in NR12/NR22/NR42,
\* volume code 0 in NR32.
SilenceWrite(c, ch, w) ==
    IF c = CHIP_NES
    THEN /\ w.addr = NesReg(4 * ch)
         /\ IF ch = 2 THEN w.val % 128 = 0 ELSE w.val % 16 = 0
    ELSE CASE ch = 0 -> w.addr = GbReg(18) /\ w.val \div 16 = 0
           [] ch = 1 -> w.addr = GbReg(23) /\ w.val \div 16 = 0
           [] ch = 2 -> w.addr = GbReg(28) /\ (w.val \div 32) % 4 = 0
           [] OTHER  -> w.addr = GbReg(33) /\ w.val \div 16 = 0

\* C9: a render call sends a silence write to every channel 0..3 that no
\* voice active after the voice loop is assigned to, and no write of the
\* block to that channel's volume follows it.
C9_UnusedChannelsSilenced ==
    [][Render(FRAMES_PER_BLOCK) =>
        \A ch \in Channels : ~InUse(voices', ch) =>
            \E k \in DOMAIN writes' :
                /\ SilenceWrite(chip, ch, writes'[k])
                /\ \A m \in DOMAIN writes' :
                      (m > k /\ writes'[m].addr = writes'[k].addr)
                          => SilenceWrite(chip, ch, writes'[m])]_vars

\* The block after a note-off: the released voice had sounded on pulse 1
\* with duty 2, and the block wrote $4000 = $30.
C9_Witness ==
    /\ chip = CHIP_NES /\ params.duty = 2
    /\ ~InUse(voices, 0)
    /\ \E i \in Slots : /\ voices[i].channel_idx = 0
                        /\ voices[i].triggered
                        /\ voices[i].env.stage = ENV_RELEASE
                        /\ voices[i].env.level > 0
    /\ \E k \in DOMAIN writes : writes[k] = W(writes[k].time, NesReg(0), 48)
    /\ core[CHIP_NES][0] = 0

\* C10, as stated: a render call made with no voice active fills the
\* output buffer with zeros.
C10_SilentBlockIsZero ==
    [][(ActiveSlots(voices) = {} /\ Render(FRAMES_PER_BLOCK))
          => out' = "zero"]_vars

(* ------------------------------------------------------------------ *)
(* Properties: write times                                              *)
(* ------------------------------------------------------------------ *)
\* C11: in every render call the time offsets of the register writes, in
\* the order they are sent to the chip core, start at 0 and never decrease,
\* whatever voices are active, triggering or not, and whatever channels are
\* silenced, on both chips; each call starts again from 0.
C11_WriteTimesOrdered ==
    [][Render(FRAMES_PER_BLOCK) =>
        /\ writes' # << >>
        /\ writes'[1].time = 0
        /\ \A k \in 1 .. (Len(writes') - 1) :
              writes'[k].time <= writes'[k + 1].time]_vars

\* A Game Boy block with both squares updated without a trigger, the wave
\* channel triggered and the noise channel silenced after them.
C11_Witness ==
    /\ chip = CHIP_GB
    /\ writes # << >> /\ writes[1] = W(0, GbReg(19), writes[1].val)
    /\ \E k \in DOMAIN writes : writes[k].addr = GbReg(30) /\ writes[k].val >= 128
    /\ \E k \in DOMAIN writes : writes[k] = W(8, GbReg(33), 0)
    /\ writes[Len(writes)].time = 9

(* ------------------------------------------------------------------ *)
(* Properties: the instant envelope                                     *)
(* ------------------------------------------------------------------ *)
ZeroEnvParams(ps) ==
    /\ ps.env_attack = 0 /\ ps.env_decay = 0
    /\ ps.env_sustain = 0 /\ ps.env_release = 0

\* The envelope is the one a note-on configures from four zeros.
InstantEnv(env) ==
    /\ env.attack_inc = LevelOne /\ env.decay_dec = LevelOne
    /\ env.sustain_level = 0 /\ env.release_dec = LevelOne

\* C12: with attack = decay = sustain = release = 0 a note-on starts its
\* voice in Attack; the first envelope sample takes it to Decay and the
\* second to Idle; the next render call deactivates the voice and sends a
\* silence write to its channel in that block.
C12_InstantEnvelope ==
    [][ /\ (Allocates /\ ZeroEnvParams(params)) =>
              \A i \in Slots : voices'[i].age > voice_age_counter =>
                  LET e == voices'[i].env
                  IN  /\ voices'[i].active
                      /\ e.stage = ENV_ATTACK
                      /\ env_process(e).stage = ENV_DECAY
                      /\ env_process(env_process(e)).stage = ENV_IDLE
                      /\ env_process(env_process(e)).level = 0
        /\ \A i \in ActiveSlots(voices) :
                  ( /\ voices[i].env.stage = ENV_ATTACK
                    /\ InstantEnv(voices[i].env)
                    /\ Render(FRAMES_PER_BLOCK) )
                      => /\ ~voices'[i].active
                         /\ voices'[i].env.stage = ENV_IDLE
                         /\ voices'[i].env.level = 0
                         /\ \E k \in DOMAIN writes' :
                               SilenceWrite(chip, voices[i].channel_idx,
                                            writes'[k]) ]_vars

\* The block after such a note-on: the voice is inactive and Idle without
\* ever having been triggered, and its channel was written silent.
C12_Witness ==
    \E i \in Slots :
        /\ voices[i].age > 0 /\ ~voices[i].active /\ ~voices[i].triggered
        /\ voices[i].env.stage = ENV_IDLE /\ InstantEnv(voices[i].env)
        /\ \E k \in DOMAIN writes :
              SilenceWrite(chip, voices[i].channel_idx, writes[k])

C14_ChannelKept ==
    [][\A i \in Slots :
          (voices[i].active /\ voices'[i].active
              /\ voices'[i].age = voices[i].age)
          => /\ voices'[i].channel_idx = voices[i].channel_idx
             /\ voices'[i].channel_type = voices[i].channel_type]_vars

\* A voice rendered on channel 0 under GB Poly is still there after a
\* restored state has widened the mask, the mode has been set to Locked
\* and a later note has taken channel 1.
C14_Witness ==
    /\ current_preset = 19 /\ params.channel_mask = 15
    /\ params.alloc_mode = ALLOC_LOCKED
    /\ \E i, j \in ActiveSlots(voices) :
          /\ voices[i].triggered /\ voices[i].channel_idx = 0
          /\ voices[j].age > voices[i].age /\ voices[j].channel_idx = 1

(* ------------------------------------------------------------------ *)
(* Properties: preset index out of range                                *)
(* ------------------------------------------------------------------ *)
\* C18: set_param("preset", i) with i < 0 or i >= 32 changes nothing of the
\* instance: chip, parameters, current preset and voices; a state restore
\* whose preset number is out of range leaves current_preset as it is and
\* every voice as it is.
C18_OutOfRangePresetIgnored ==
    [][ /\ UNCHANGED <<chip, params, current_preset, voices, core>>
           \/ \A idx \in {-1, NUM_PRESETS} : ~SetPreset(idx)
        /\ (current_preset' = current_preset /\ voices' = voices)
           \/ \A json \in SessionStates :
                 ( /\ json_has(json, "preset")
                   /\ (json["preset"] < 0 \/ json["preset"] >= NUM_PRESETS) )
                 => ~RestoreState(json) ]_vars

\* A state with preset 32 has been restored over GB Poly while a note
\* sounded: the voice, started with the preset's envelope, is still active
\* and the preset is still 19.
C18_Witness ==
    /\ current_preset = 19 /\ ZeroEnvParams(params)
    /\ \E i \in ActiveSlots(voices) :
          voices[i].triggered /\ ~InstantEnv(voices[i].env)


(* ------------------------------------------------------------------ *)
(* Properties: hardware volume                                          *)
(* ------------------------------------------------------------------ *)
\* The register holding the 4-bit volume of channel ch (pulse/square 1 and
\* 2, noise): NES $4000, $4004, $400C (low nibble), Game Boy NR12, NR22,
\* NR42 (high nibble).
VolumeReg(c, ch) ==
    IF c = CHIP_NES THEN NesReg(4 * ch)
    ELSE IF ch = 0 THEN GbReg(18) ELSE IF ch = 1 THEN GbReg(23) ELSE GbReg(33)

VolumeField(c, w) == IF c = CHIP_NES THEN w.val % 16 ELSE w.val \div 16

\* nv is the product level * vol * velocity / 127 brought to 0..15: the
\* level (a fraction of LevelOne) times vol rounded to the nearest integer
\* q, then q * velocity / 127 rounded down.  The level is compared in units
\* of LevelUnit, SAMPLE_RATE / 15 of them to 1.0, with the fraction of a
\* unit (less than one) left to the rounding.
IsQuantizedProduct(nv, level, vol, velocity) ==
    LET a == level \div LevelUnit
        n == SAMPLE_RATE \div 15
    IN  \E q \in 0 .. 15 :
            /\ 2 * n * q - 2 * vol <= 2 * vol * a + n
            /\ 2 * vol * a + n < 2 * n * (q + 1)
            /\ nv = Min2((q * velocity) \div 127, 15)

\* The voices a block renders with a 4-bit volume field to themselves:
\* active before and after the call, alone on channel 0, 1 or 3.
VolumeVoices ==
    {i \in ActiveSlots(voices) \cap ActiveSlots(voices') :
        AloneOnChannel(voices, i) /\ voices[i].channel_idx \in {0, 1, 3}}

VolumeWritesOf(i) ==
    {k \in DOMAIN writes' :
        writes'[k].addr = VolumeReg(chip, voices[i].channel_idx)}

\* C15, as stated: on both chips the 4-bit volume written for a voice in a
\* block is the quantized product of the block-start envelope level, the
\* volume parameter and the velocity, in 0..15, and 0 for a level of 0.
C15_VolumeIsProduct ==
    [][Render(FRAMES_PER_BLOCK) =>
        \A i \in VolumeVoices : \A k \in VolumeWritesOf(i) :
            LET nv == VolumeField(chip, writes'[k])
            IN  /\ nv \in 0 .. 15
                /\ IsQuantizedProduct(nv, voices[i].env.level, params.volume,
                                      voices[i].velocity)
                /\ voices[i].env.level = 0 => nv = 0]_vars

\* C15, amended: on the NES every block writes the voice's volume once, the
\* quantized product of block-start level, volume parameter and velocity,
\* in 0..15 and 0 for a level of 0.  On the Game Boy the volume is written
\* only in the block that triggers the voice, and is the volume parameter
\* times velocity / 127 rounded and kept in 1..15, whatever the level.
C15_VolumeWritten ==
    [][Render(FRAMES_PER_BLOCK) =>
        \A i \in VolumeVoices :
            IF chip = CHIP_NES
            THEN /\ Cardinality(VolumeWritesOf(i)) = 1
                 /\ \A k \in VolumeWritesOf(i) :
                       LET nv == VolumeField(chip, writes'[k])
                       IN  /\ nv \in 0 .. 15
                           /\ IsQuantizedProduct(nv, voices[i].env.level,
                                      params.volume, voices[i].velocity)
                           /\ voices[i].env.level = 0 => nv = 0
            ELSE /\ Cardinality(VolumeWritesOf(i))
                       = IF voices[i].triggered THEN 0 ELSE 1
                 /\ \A k \in VolumeWritesOf(i) :
                       /\ VolumeField(chip, writes'[k]) \in 1 .. 15
                       /\ VolumeField(chip, writes'[k])
                             = Clamp((2 * params.volume * voices[i].velocity
                                        + 127) \div 254, 1, 15)]_vars

\* An NES pulse voice in mid-decay: the block wrote a volume strictly
\* between 0 and the full-level volume.
C15_Witness ==
    /\ chip = CHIP_NES
    /\ \E i \in ActiveSlots(voices) :
          /\ voices[i].triggered /\ AloneOnChannel(voices, i)
          /\ voices[i].channel_idx = 0
          /\ voices[i].env.stage = ENV_DECAY
          /\ \E k \in DOMAIN writes :
                /\ writes[k].addr = NesReg(0)
                /\ writes[k].val % 16 > 0
                /\ writes[k].val % 16
                      < (params.volume * voices[i].velocity) \div 127

(* ------------------------------------------------------------------ *)
(* Properties: note range                                               *)
(* ------------------------------------------------------------------ *)
\* key + 12 * octave brought into 0..127.
ClampedNote(key, octave) ==
    IF key + 12 * octave < 0 THEN 0
    ELSE IF key + 12 * octave > 127 THEN 127
    ELSE key + 12 * octave

\* C16: every stored voice note is in 0..127; for every key 0..127 and
\* every octave_transpose -3..3 a note-on stores key + 12 * octave clamped
\* to 0..127 in the voice it allocates, and a note-off deactivates every
\* active voice whose stored note is the clamped note of its own key, so it
\* matches a voice whose note-on key was clamped to the same value.
C16_NotesClamped ==
    [][ /\ \A i \in Slots : voices'[i].note \in 0 .. 127
        /\ Allocates =>
              \A n \in AllKeys :
                  \* the stored note is compared first: only the keys that
                  \* transpose to it can have been the step's key
                  ( /\ voices'[NewSlot].note = TransposedNote(n, params)
                    /\ NoteOn(n, 100) )
                  => /\ voices'[NewSlot].active
                     /\ voices'[NewSlot].note
                           = ClampedNote(n, params.octave_transpose)
        /\ \A i \in ActiveSlots(voices) :
              \* a step that leaves voice i active is no note-off for a key
              \* that is clamped to the voice's note
              (~Allocates /\ voices'[i].active) =>
                  \A n \in AllKeys :
                      voices[i].note = ClampedNote(n, params.octave_transpose)
                          => ~NoteOff(n) ]_vars

\* Three octaves up, a voice with note 127 (its key was 91 or above) has
\* been released by a note-off.
C16_Witness ==
    /\ params.octave_transpose = 3
    /\ \E i \in Slots : /\ voices[i].age > 0 /\ voices[i].note = 127
                        /\ ~voices[i].active
                        /\ voices[i].env.stage = ENV_RELEASE

(* ------------------------------------------------------------------ *)
(* Properties: output buffer                                            *)
(* ------------------------------------------------------------------ *)
RECURSIVE BufLen(_)
BufLen(buf) == IF buf = << >> THEN 0 ELSE buf[1][2] + BufLen(Tail(buf))

\* C17: every render call writes all 2 * frames positions of the buffer:
\* with a null instance every position is zero; with a live instance every
\* position holds a scaled core sample, clamped to -32768..32767, or zero,
\* and none holds what was there before the call.
C17_BufferFilled ==
    [][\A f \in BlockFrames :
          /\ RenderNull(f) => buffer' = << <<"zero", 2 * f>> >>
          /\ (\E a \in Avails : RenderBlock(f, a)) =>
                /\ BufLen(buffer') = 2 * f
                /\ \A k \in DOMAIN buffer' : buffer'[k][1] \in {"pcm", "zero"}
                /\ \A x \in CoreSamples, num \in 0 .. 4 :
                      scale_sample(x, num, 4) \in -32768 .. 32767]_vars

\* A live NES instance whose core delivered one sample less than a block:
\* the last frame of the buffer is zero.
C17_Witness ==
    /\ chip = CHIP_NES /\ out = "pcm"
    /\ buffer = << <<"pcm", 2 * FRAMES_PER_BLOCK - 2>>, <<"zero", 2>> >>

(* ------------------------------------------------------------------ *)
(* Properties: periods and frequency registers                          *)
(* ------------------------------------------------------------------ *)
InChipRange(fm) ==
    /\ nes_pulse_period(fm) \in 0 .. 2047
    /\ nes_triangle_period(fm) \in 0 .. 2047
    /\ gb_square_freq_reg(fm) \in 0 .. 2047
    /\ gb_wave_freq_reg(fm) \in 0 .. 2047

\* The frequency registers of channel ch on chip c: low byte, high bits.
FreqRegs(c, ch) ==
    IF c = CHIP_NES
    THEN <<NesReg(4 * ch + 2), NesReg(4 * ch + 3)>>
    ELSE <<GbReg(19 + 5 * ch), GbReg(20 + 5 * ch)>>

\* The period or frequency register the code computes for channel ch.
ChannelPeriod(c, ch, fm) ==
    IF c = CHIP_NES
    THEN (IF ch = 2 THEN nes_triangle_period(fm) ELSE nes_pulse_period(fm))
    ELSE (IF ch = 2 THEN gb_wave_freq_reg(fm) ELSE gb_square_freq_reg(fm))

\* C19: for every note 0..127 and every frequency the pitch modulator makes
\* of it (bend, pitch envelope, vibrato, detune), the NES pulse and triangle
\* periods and the GB square and wave frequency registers lie in 0..2047; the
\* two register writes of a rendered voice carry exactly that value, the
\* high write with no more than 3 of its bits.
C19_PeriodsInRange ==
    [][Render(FRAMES_PER_BLOCK) =>
          /\ \A n \in AllKeys, ch \in {0, 1} :
                InChipRange(VoiceFreq([voice_init EXCEPT
                                          !.note = n, !.channel_idx = ch,
                                          !.pitch_env = params.pitch_env_depth * 1000],
                                      params, pitch_bend_semitones, lfo_phase))
          /\ \A i \in Slots :
                (voices[i].active /\ voices'[i].active /\ voices[i].channel_idx < 3) =>
                   LET v == voices[i]
                       fm == VoiceFreq(v, params, pitch_bend_semitones, lfo_phase)
                       regs == FreqRegs(chip, v.channel_idx)
                       period == ChannelPeriod(chip, v.channel_idx, fm)
                   IN  /\ InChipRange(fm)
                       /\ \E k \in DOMAIN writes' :
                             /\ writes'[k].addr = regs[1]
                             /\ writes'[k].val = period % 256
                             /\ (~v.triggered \/ chip = CHIP_GB) =>
                                   \E h \in (k + 1) .. Min2(k + 3, Len(writes')) :
                                      /\ writes'[h].addr = regs[2]
                                      /\ writes'[h].val % 8 = period \div 256
                                      /\ writes'[h].val - (writes'[h].val % 8)
                                            \in {0, 128, 248}]_vars

\* A rendered NES voice at the lowest note: the period is held at 0x7FF.
C19_Witness ==
    /\ chip = CHIP_NES
    /\ \E i \in Slots : voices[i].active /\ voices[i].triggered /\ voices[i].note = 0
    /\ \E k \in DOMAIN writes : writes[k].addr = NesReg(2) /\ writes[k].val = 255
    /\ \E k \in DOMAIN writes : writes[k].addr = NesReg(3) /\ writes[k].val = 248 + 7

(* ------------------------------------------------------------------ *)
(* Properties: Auto-mode channel order                                  *)
(* ------------------------------------------------------------------ *)
\* Channel ch is enabled by the mask and no active voice of vs is on it.
FreeChannel(vs, mask, ch) == HasBit(mask, ch) /\ ~InUse(vs, ch)

LowestEnabled(mask) ==
    CHOOSE ch \in EnabledChannels(mask) :
        \A c \in EnabledChannels(mask) : ch <= c

Doubled == voice_age_counter' = voice_age_counter + 2

\* The slot the note-on gave the unison double.
DoubleSlot == CHOOSE i \in Slots : voices'[i].age = voice_age_counter + 2

\* The slots other than the primary's that are inactive when the double is
\* looked for: in Lead mode the note-on has deactivated every voice by then.
FreeOther ==
    {i \in Slots \ {NewSlot} :
        ~voices[i].active \/ params.alloc_mode = ALLOC_LEAD}

\* The double repeats the primary voice on channel ch, in a slot that was
\* inactive.
DoubleOn(ch) ==
    /\ DoubleSlot \in FreeOther
    /\ voices'[DoubleSlot] =
          [voices'[NewSlot] EXCEPT !.channel_idx = ch, !.channel_type = ch,
                                   !.age = voice_age_counter + 2]

\* C22, as stated: a note-on doubles exactly when detune > 0, the mask
\* enables both pulse channels, the primary voice is on channel 0 and an
\* inactive slot other than the primary's exists; the double is on channel 1
\* with the same note, velocity and envelope, in a slot that was inactive.
C22_UnisonFromChannel0 ==
    [][Allocates =>
          /\ Doubled <=> ( /\ params.detune > 0
                           /\ params.channel_mask % 4 = 3
                           /\ voices'[NewSlot].channel_idx = 0
                           /\ FreeOther # {} )
          /\ Doubled => DoubleOn(1)]_vars

\* C22, amended: a note-on doubles exactly when detune > 0, the mask enables
\* both pulse channels, the primary voice is on channel 0 or channel 1 and
\* an inactive slot other than the primary's exists; the double is on the
\* other pulse channel with the same note, velocity and envelope, in a slot
\* that was inactive.
C22_UnisonOtherPulse ==
    [][Allocates =>
          /\ Doubled <=> ( /\ params.detune > 0
                           /\ params.channel_mask % 4 = 3
                           /\ voices'[NewSlot].channel_idx \in {0, 1}
                           /\ FreeOther # {} )
          /\ Doubled => DoubleOn(1 - voices'[NewSlot].channel_idx)]_vars

\* A primary voice on channel 1, channel 0 being in use by an older voice,
\* with its double on channel 0.
C22_Witness ==
    /\ params.detune > 0 /\ params.channel_mask = 3
    /\ \E i, j, k \in Slots :
          /\ voices[i].active /\ voices[j].active /\ voices[k].active
          /\ voices[k].age < voices[i].age /\ voices[k].channel_idx = 0
          /\ voices[i].channel_idx = 1
          /\ voices[j].age = voices[i].age + 1 /\ voices[j].age = voice_age_counter
          /\ voices[j].channel_idx = 0 /\ voices[j].note = voices[i].note

(* ------------------------------------------------------------------ *)
(* Properties: age stamps                                               *)
(* ------------------------------------------------------------------ *)
\* C23: every allocation adds 1 to voice_age_counter and stamps the new
\* voice with it: the newest voice is older than no other voice, two active
\* voices never share an age, and the counter never decreases, whatever the
\* step: kill_all_voices, a preset change and a chip change included.
C23_AgeStamps ==
    [][ /\ voice_age_counter' >= voice_age_counter
        /\ \A i \in Slots : voices'[i].age <= voice_age_counter'
        /\ \A i, j \in ActiveSlots(voices') :
              i # j => voices'[i].age # voices'[j].age
        /\ Allocates =>
              /\ voice_age_counter' - voice_age_counter \in {1, 2}
              /\ \A a \in (voice_age_counter + 1) .. voice_age_counter' :
                    \E i \in ActiveSlots(voices') :
                        /\ voices'[i].age = a
                        /\ \A j \in Slots \ {i} :
                              voices'[j].age = a => ~voices'[j].active
                        /\ a = voice_age_counter' =>
                              \A j \in Slots \ {i} : voices'[j].age < a
        /\ ~Allocates =>
              \A i \in Slots : voices'[i].age = voices[i].age ]_vars

\* NES Unison was selected after a first note had been played; the note
\* played after the preset change got ages 2 and 3.
C23_Witness ==
    /\ current_preset = 8 /\ voice_age_counter = 3
    /\ \E i, j \in ActiveSlots(voices) : voices[i].age = 2 /\ voices[j].age = 3

(* ------------------------------------------------------------------ *)
(* Properties: envelope stages                                          *)
(* ------------------------------------------------------------------ *)
\* The rates and the sustain level of envelope e2 are those of e.
SameSettings(e, e2) ==
    /\ e2.attack_inc = e.attack_inc /\ e2.decay_dec = e.decay_dec
    /\ e2.sustain_level = e.sustain_level /\ e2.release_dec = e.release_dec

\* C24: one env_process step makes only these transitions.  Attack: stays
\* Attack below level 1, or goes to Decay at level 1.  Decay: stays Decay
\* above the sustain level, or takes the sustain level and goes to Sustain
\* when it is > 0 and to Idle when it is 0.  Sustain: nothing changes.
\* Release: stays Release above 0, or goes to Idle at level 0.  Idle: stays
\* Idle at level 0.
C24_StageTransitions ==
    [][EnvSample =>
          LET e == voices[0].env
              e2 == voices'[0].env
          IN  /\ SameSettings(e, e2)
              /\ e.stage = ENV_ATTACK =>
                    \/ /\ e2.stage = ENV_ATTACK
                       /\ e2.level = e.level + e.attack_inc
                       /\ e2.level < LevelOne
                    \/ /\ e2.stage = ENV_DECAY
                       /\ e2.level = LevelOne
                       /\ e.level + e.attack_inc >= LevelOne
              /\ e.stage = ENV_DECAY =>
                    \/ /\ e2.stage = ENV_DECAY
                       /\ e2.level = e.level - e.decay_dec
                       /\ e2.level > e.sustain_level
                    \/ /\ e.level - e.decay_dec <= e.sustain_level
                       /\ e2.level = e.sustain_level
                       /\ e2.stage = IF e.sustain_level > 0
                                     THEN ENV_SUSTAIN ELSE ENV_IDLE
              /\ e.stage = ENV_SUSTAIN => e2 = e
              /\ e.stage = ENV_RELEASE =>
                    \/ /\ e2.stage = ENV_RELEASE
                       /\ e2.level = e.level - e.release_dec
                       /\ e2.level > 0
                    \/ /\ e2.stage = ENV_IDLE
                       /\ e2.level = 0
                       /\ e.level - e.release_dec <= 0
              /\ e.stage = ENV_IDLE =>
                    e2.stage = ENV_IDLE /\ e2.level = 0]_vars

\* An attack-decay envelope (sustain 0) at the last sample of a slow decay:
\* the attack has reached level 1 and the decay has brought the level down
\* to one step above 0; the next sample takes it to Idle.
C24_Witness ==
    /\ voices[0].env.stage = ENV_DECAY
    /\ voices[0].env.sustain_level = 0
    /\ voices[0].env.decay_dec < LevelOne
    /\ voices[0].env.level = voices[0].env.decay_dec

(* ------------------------------------------------------------------ *)
(* Properties: LFO phase                                                *)
(* ------------------------------------------------------------------ *)
\* C25: the LFO phase is in [0,1) after every step; a render call with
\* vibrato rate > 0 advances it once by rate * frames / SAMPLE_RATE modulo
\* 1, whatever the number of active voices, and leaves it alone with rate 0;
\* every voice rendered in the block has its frequency computed from the
\* phase the block started with; no other step moves the phase.
C25_LfoPhase ==
    [][ /\ lfo_phase' \in 0 .. (SAMPLE_RATE - 1)
        /\ lfo_phase' = lfo_phase \/ Render(FRAMES_PER_BLOCK)
        /\ \/ /\ lfo_phase' =
                    (IF params.vibrato_rate > 0
                     THEN (lfo_phase + params.vibrato_rate * FRAMES_PER_BLOCK)
                             % SAMPLE_RATE
                     ELSE lfo_phase)
              /\ \A i \in ActiveSlots(voices) \cap ActiveSlots(voices') :
                    voices[i].channel_idx < 3 =>
                       LET v == voices[i]
                           fm == VoiceFreq(v, params, pitch_bend_semitones, lfo_phase)
                       IN  \E k \in DOMAIN writes' :
                              /\ writes'[k].addr = FreqRegs(chip, v.channel_idx)[1]
                              /\ writes'[k].val
                                    = ChannelPeriod(chip, v.channel_idx, fm) % 256
           \/ ~Render(FRAMES_PER_BLOCK) ]_vars

\* Two voices sound and the LFO has wrapped: the phase is past 0 by less
\* than one block's advance.
C25_Witness ==
    /\ params.vibrato_rate > 0
    /\ lfo_phase > 0 /\ lfo_phase < params.vibrato_rate * FRAMES_PER_BLOCK
    /\ \E i, j \in ActiveSlots(voices) :
          i # j /\ voices[i].triggered /\ voices[j].triggered


(* ------------------------------------------------------------------ *)
(* Properties: pitch envelope                                           *)
(* ------------------------------------------------------------------ *)
\* A voice that a step neither starts nor ends: active before and after, with
\* the same age stamp.
Continues(i) ==
    voices[i].active /\ voices'[i].active /\ voices'[i].age = voices[i].age

\* The decrement of a linear decay from the configured depth, per block of
\* `frames` samples, in 1/1000 semitone.
LinearStep(ps, frames) ==
    (ps.pitch_env_depth * 1000 * frames)
        \div (ps.pitch_env_speed * (SAMPLE_RATE \div 60))

\* C26: a voice's pitch-envelope level starts at the configured depth on
\* note-on; with speed > 0 every rendered block lowers it by the same amount
\* depth * frames / (speed * SAMPLE_RATE / 60) until it reaches 0 (linear
\* decay); with speed 0 it keeps its value; it is never negative and never
\* increases between note-ons.
C26_LinearDecay ==
    [][ \A i \in Slots :
          /\ voices'[i].pitch_env >= 0
          /\ (voices'[i].active /\ voices'[i].age > voices[i].age)
                => voices'[i].pitch_env = params.pitch_env_depth * 1000
          /\ Continues(i) =>
                /\ voices'[i].pitch_env <= voices[i].pitch_env
                /\ \/ voices'[i].pitch_env =
                          (IF params.pitch_env_speed > 0
                           THEN Max2(0, voices[i].pitch_env
                                          - LinearStep(params, FRAMES_PER_BLOCK))
                           ELSE voices[i].pitch_env)
                   \/ ~Render(FRAMES_PER_BLOCK) ]_vars


(* ------------------------------------------------------------------ *)
(* Properties: clamping of inputs                                       *)
(* ------------------------------------------------------------------ *)
\* C27: after any sequence of set_param calls (state restores with
\* arbitrary chip and parameter numbers, wavetable changes) and mod-wheel
\* control changes, the chip selection is NES or GB and every parameter lies
\* within its declared [min, max] range.
C27_AllClamped ==
    /\ chip \in {CHIP_NES, CHIP_GB}
    /\ \A k \in ParamKeys : params[k] >= ParamMin[k] /\ params[k] <= ParamMax[k]


(* ------------------------------------------------------------------ *)
(* Properties: noise period lookup                                      *)
(* ------------------------------------------------------------------ *)
\* The table position the claim gives a note, counted from the lowest pitch:
\* floor((note - 68) / 2) inside 68..99, the first entry below, the last
\* above.
NoiseEntry(note) ==
    IF note < 68 THEN 0 ELSE IF note > 99 THEN 15 ELSE (note - 68) \div 2

\* The noise period write of a block: NES $400E, Game Boy NR43.
NoisePeriodWrite(w) ==
    w.addr = (IF chip = CHIP_NES THEN NesReg(14) ELSE GbReg(34))

\* C28: the noise period index depends on the note only.  For notes 68..99
\* the NES index is 15 - floor((note - 68) / 2) and the Game Boy table index
\* is floor((note - 68) / 2), so each of the 16 entries serves exactly two
\* adjacent notes; notes below 68 get the lowest-pitch entry, notes above 99
\* the highest-pitch entry; the index is always in 0..15.  Stated on the
\* period register a render call writes for a voice on the noise channel.
C28_NoisePeriodIndex ==
    [][ \/ \A i \in Slots :
              (Continues(i) /\ voices[i].channel_idx = 3) =>
                 LET e == NoiseEntry(voices[i].note)
                 IN  /\ e \in 0 .. 15
                     /\ \E k \in DOMAIN writes' : NoisePeriodWrite(writes'[k])
                     /\ \A k \in DOMAIN writes' :
                           NoisePeriodWrite(writes'[k]) =>
                              IF chip = CHIP_NES
                              THEN writes'[k].val % 16 = 15 - e
                              ELSE /\ writes'[k].val \div 16 = noise_table[e + 1][1]
                                   /\ writes'[k].val % 8 = noise_table[e + 1][2]
        \/ ~Render(FRAMES_PER_BLOCK) ]_vars

\* The second of the two notes that share the lowest-pitch entry has been
\* rendered on the noise channel.
C28_Witness ==
    /\ voices[0].active /\ voices[0].triggered
    /\ voices[0].channel_idx = 3 /\ voices[0].note = 69
    /\ \E k \in DOMAIN writes :
          NoisePeriodWrite(writes[k]) /\ writes[k].val % 16 = 15


(* ------------------------------------------------------------------ *)
(* Properties: note-on with velocity 0                                  *)
(* ------------------------------------------------------------------ *)
\* C29: a note-on with velocity 0 is a note-off for the same key: the two
\* messages have the same successor states; every active voice holding the
\* (transposed) note is gated off and deactivated, every other voice is left
\* as it was (in Lead mode too: voices holding other notes are not killed),
\* no voice becomes active and the age counter does not change.
C29_VelocityZeroIsNoteOff ==
    [][ \A n \in Notes :
          /\ NoteOn(n, 0) <=> NoteOff(n)
          /\ NoteOn(n, 0) =>
                /\ voice_age_counter' = voice_age_counter
                /\ \A i \in Slots :
                      IF voices[i].active
                         /\ voices[i].note = TransposedNote(n, params)
                      THEN /\ ~voices'[i].active
                           /\ voices'[i].env = env_gate_off(voices[i].env)
                           /\ voices'[i].age = voices[i].age
                      ELSE voices'[i] = voices[i] ]_vars

\* Lead mode was selected while two notes sounded, and a message for key 60
\* has released its voice while the voice of key 100 plays on.
C29_Witness ==
    /\ params.alloc_mode = ALLOC_LEAD
    /\ \E i, j \in Slots :
          /\ ~voices[i].active /\ voices[i].note = 60
          /\ voices[i].env.stage = ENV_RELEASE
          /\ voices[j].active /\ voices[j].note = 100


(* ------------------------------------------------------------------ *)
(* Properties: note-off after parameter changes                         *)
(* ------------------------------------------------------------------ *)
\* C30: after a note-off for key k no voice started by a note-on for key k
\* remains active, whatever render calls and parameter changes (octave
\* transpose included) came between the note-on and the note-off.  Every
\* voice of SpecOctave is started by key 60, so a note-off for key 60 must
\* leave no voice active.
C30_NoteOffReleasesKey ==
    [][ NoteOff(60) => \A i \in Slots : ~voices'[i].active ]_vars


C32_DecayEnds == <>(\A i \in Slots : ~voices[i].active)

\* The slowest envelope (attack 15, decay 15) has run through Attack and
\* Decay to Idle and the renderer has deactivated the voice.
C32_Witness ==
    /\ params.env_attack = 15 /\ params.env_decay = 15
    /\ \E i \in Slots :
          /\ voices[i].age = 1 /\ voices[i].triggered
          /\ ~voices[i].active /\ voices[i].env.stage = ENV_IDLE


(* ------------------------------------------------------------------ *)
(* Properties: new voices and the channel mask                          *)
(* ------------------------------------------------------------------ *)
\* C33: with a non-zero channel mask, every voice a note-on creates (primary
\* or unison double: the voices stamped with an age above the old counter)
\* is on a channel whose bit is set in the mask in force at the note-on, in
\* all three allocation modes and after any earlier mask or mode change.
C33_ChannelInMask ==
    [][ params.channel_mask # 0 =>
          \A i \in Slots :
             (voices'[i].active /\ voices'[i].age > voice_age_counter) =>
                voices'[i].channel_idx \in EnabledChannels(params.channel_mask)
      ]_vars


(* ------------------------------------------------------------------ *)
(* Properties: killing all voices                                       *)
(* ------------------------------------------------------------------ *)
\* A message or set_param call that kills all voices: CC 120 or 123,
\* all_notes_off, a chip selection with any value, a preset change that
\* succeeds (an index of the table other than the current one).
KillStep ==
    \/ \E cc \in KillControllers : ControlChange(cc, 0)
    \/ AllNotesOff
    \/ \E c \in KillChips : SetChip(c)
    \/ \E idx \in KillPresets :
          /\ idx >= 0 /\ idx < NUM_PRESETS /\ idx # current_preset
          /\ SetPreset(idx)

\* Address and value of the writes that silence channel ch.
SilenceRegs(c, ch) ==
    LET ws == IF c = CHIP_NES THEN nes_silence_channel(ch, 0)
              ELSE gb_silence_channel(ch, 0)
    IN  { <<ws[k].addr, ws[k].val>> : k \in DOMAIN ws }

\* C34: after CC 120, CC 123, all_notes_off, a chip selection or a
\* successful preset change no voice is active and every envelope is Idle at
\* level 0; a render call that finds no active voice silences all four
\* channels and sends no voice write (on the NES only the $4015 channel
\* enable precedes the silence writes).
C34_KillSilences ==
    [][ /\ \/ \A i \in Slots : /\ ~voices'[i].active
                               /\ voices'[i].env.stage = ENV_IDLE
                               /\ voices'[i].env.level = 0
           \/ ~KillStep
        /\ \/ \E i \in Slots : voices[i].active
           \/ /\ \A ch \in Channels :
                    \E k \in DOMAIN writes' : SilenceWrite(chip, ch, writes'[k])
              /\ \A k \in DOMAIN writes' :
                    \/ \E ch \in Channels :
                          <<writes'[k].addr, writes'[k].val>> \in SilenceRegs(chip, ch)
                    \/ chip = CHIP_NES /\ writes'[k] = W(0, NesReg(21), 15)
           \/ ~Render(FRAMES_PER_BLOCK) ]_vars

\* Voices that had sounded were killed and the next block was rendered: a
\* slot that was triggered has the envelope env_init leaves, nothing is
\* active, and the block's writes are there.
C34_Witness ==
    /\ \A i \in Slots : ~voices[i].active
    /\ \E i \in Slots :
          voices[i].age > 0 /\ voices[i].triggered /\ voices[i].env = env_init
    /\ \A ch \in Channels :
          \E k \in DOMAIN writes : SilenceWrite(chip, ch, writes[k])
    /\ out # "none"


(* ------------------------------------------------------------------ *)
(* Properties: what a render call leaves alone                          *)
(* ------------------------------------------------------------------ *)
\* C35: render_block changes only envelopes, pitch-envelope levels,
\* triggered flags, active flags (true to false only) and the LFO phase: it
\* never changes the parameters, the chip, the preset, the pitch bend, the
\* age counter or a voice's note, velocity, channel or age, and it never
\* turns an inactive voice active.
C35_RenderFrame ==
    [][ \/ /\ params' = params
           /\ chip' = chip
           /\ current_preset' = current_preset
           /\ pitch_bend_semitones' = pitch_bend_semitones
           /\ voice_age_counter' = voice_age_counter
           /\ \A i \in Slots :
                 /\ voices'[i].note = voices[i].note
                 /\ voices'[i].velocity = voices[i].velocity
                 /\ voices'[i].channel_idx = voices[i].channel_idx
                 /\ voices'[i].channel_type = voices[i].channel_type
                 /\ voices'[i].age = voices[i].age
                 /\ voices'[i].active => voices[i].active
        \/ ~Render(FRAMES_PER_BLOCK) ]_vars

\* Under a pitch bend, a block has ended one voice (its envelope ran out)
\* while another voice plays on with its pitch envelope partly decayed.
C35_Witness ==
    /\ pitch_bend_semitones # 0
    /\ \E i, j \in Slots :
          /\ ~voices[i].active /\ voices[i].triggered
          /\ voices[i].env.stage = ENV_IDLE /\ voices[i].env.decay_dec > 0
          /\ voices[j].active /\ voices[j].triggered
          /\ voices[j].pitch_env > 0
          /\ voices[j].pitch_env < params.pitch_env_depth * 1000

(* ------------------------------------------------------------------ *)
(* C36: the samples left unread in the core stay bounded                *)
(* ------------------------------------------------------------------ *)
\* C36: with frames = 128, over any number of consecutive render calls the
\* number of samples left unread in the chip core after a render call stays
\* below a fixed bound (here MaxUnread): the cycle budget of a block
\* produces no more samples than the call reads.
C36_UnreadBounded ==
    \A c \in {CHIP_NES, CHIP_GB} : unread[c].samples < MaxUnread

(* ------------------------------------------------------------------ *)
(* C37: the NES volume lags the envelope by one block                   *)
(* ------------------------------------------------------------------ *)
\* The NES voices a block writes for: active before and after the call and
\* alone on their channel.
NesWrittenVoices ==
    {i \in ActiveSlots(voices) \cap ActiveSlots(voices') :
        AloneOnChannel(voices, i)}

\* The writes of the block to the register that carries the volume of
\* channel ch (pulse, noise) or the gate of the triangle.
LevelWritesOf(ch) ==
    {k \in DOMAIN writes' : writes'[k].addr = NesReg(4 * ch)}

\* C37: on the NES, the block that triggers a voice (the first block
\* rendered after its note-on) finds the envelope level at 0 and writes
\* volume 0 for it, on the triangle the gate off; every block writes the
\* volume that belongs to the level the voice had before the call, the
\* level the block before left, and gates the triangle on that volume.
C37_VolumeLagsOneBlock ==
    [][ \/ chip # CHIP_NES
        \/ \A i \in NesWrittenVoices :
            LET ch == voices[i].channel_idx
                ws == LevelWritesOf(ch)
            IN  /\ Cardinality(ws) = 1
                /\ ~voices[i].triggered =>
                      /\ voices[i].env.level = 0
                      /\ \A k \in ws :
                            IF ch = 2 THEN writes'[k].val = 128
                            ELSE writes'[k].val % 16 = 0
                /\ \A k \in ws :
                      IF ch = 2
                      THEN writes'[k].val \in {128, 255}
                           /\ (writes'[k].val = 255
                                 <=> ~IsQuantizedProduct(0, voices[i].env.level,
                                        params.volume, voices[i].velocity))
                      ELSE IsQuantizedProduct(writes'[k].val % 16,
                              voices[i].env.level, params.volume,
                              voices[i].velocity)
        \/ ~Render(FRAMES_PER_BLOCK) ]_vars

\* The first block of an NES pulse voice has just been rendered: the
\* trigger writes are among the block's writes, the volume written is 0,
\* and the envelope has already climbed to a level whose volume is not 0.
C37_Witness ==
    /\ chip = CHIP_NES
    /\ \E i \in ActiveSlots(voices) :
          /\ voices[i].triggered /\ AloneOnChannel(voices, i)
          /\ voices[i].channel_idx = 0
          /\ NesVolume(voices[i].env.level, params.volume, voices[i].velocity) > 0
          /\ \E k \in DOMAIN writes :
                writes[k].addr = NesReg(3)
          /\ \E k \in DOMAIN writes :
                writes[k].addr = NesReg(0) /\ writes[k].val % 16 = 0

=============================================================================
